---- MODULE Spec2Model ----
(***************************************************************************)
(* A model of the arx gateway: the route table compiled from the static    *)
(* routes and the watched HTTPRoute resources, its atomic hot swap, and    *)
(* the per-request pipeline (match, URI rewrite, auth directive, proxy).   *)
(*                                                                         *)
(* Strings are sequences of symbols.  "/" , "?" , ":" and " " stand for    *)
(* themselves; every other symbol ("a", "health", ...) is a block of       *)
(* characters that contains none of them.  "{*path}" is the catch-all      *)
(* suffix of a matchit pattern.                                            *)
(***************************************************************************)
EXTENDS Integers, Sequences, FiniteSets, TLC

\* ------------------------------------------------------------------ bounds

\* Request paths have at most MaxDepth segments drawn from Segs.
MaxDepth == 2

\* ----------------------------------------------------------------- strings

None == << >>
Some(x) == << x >>
IsSome(o) == Len(o) = 1
Unwrap(o) == o[1]

SLASH == "/"

EndsWithSlash(s) == Len(s) > 0 /\ s[Len(s)] = SLASH

IsPrefixOf(p, s) == Len(p) <= Len(s) /\ SubSeq(s, 1, Len(p)) = p

IsSuffixOf(x, s) == Len(x) <= Len(s) /\ SubSeq(s, Len(s) - Len(x) + 1, Len(s)) = x

\* str::strip_suffix
StripSuffix(s, x) ==
    IF IsSuffixOf(x, s) THEN Some(SubSeq(s, 1, Len(s) - Len(x))) ELSE None

\* the loop that drops every trailing '/'
RECURSIVE StripTrailingSlashes(_)
StripTrailingSlashes(s) ==
    IF EndsWithSlash(s) THEN StripTrailingSlashes(SubSeq(s, 1, Len(s) - 1)) ELSE s

\* position of the first occurrence of c in s at or after i, 0 when there is none
RECURSIVE IndexFrom(_, _, _)
IndexFrom(s, c, i) ==
    IF i > Len(s) THEN 0
    ELSE IF s[i] = c THEN i
    ELSE IndexFrom(s, c, i + 1)

\* a symbol no URI may contain (a space, a control character)
BAD == "<bad>"

Contains(s, c) == IndexFrom(s, c, 1) # 0

\* --------------------------------------------------------------------- URIs

\* http::uri::PathAndQuery::from_str: invalid bytes are rejected
PathAndQueryParses(s) == ~Contains(s, BAD)

\* PathAndQuery::path: everything before the first '?', "/" when that is empty
PqPath(pq) ==
    LET q == IndexFrom(pq, "?", 1)
        p == IF q = 0 THEN pq ELSE SubSeq(pq, 1, q - 1)
    IN  IF p = << >> THEN << SLASH >> ELSE p

\* PathAndQuery::query: everything after the first '?', None without a '?'
PqQuery(pq) ==
    LET q == IndexFrom(pq, "?", 1)
    IN  IF q = 0 THEN None ELSE Some(SubSeq(pq, q + 1, Len(pq)))

\* http::Uri as its parts: scheme and authority are options of symbols,
\* path_and_query an option of a string
MkUri(scheme, authority, pq) ==
    [scheme |-> scheme, authority |-> authority, path_and_query |-> pq]

\* Uri::path
UriPath(uri) ==
    IF IsSome(uri.path_and_query) THEN PqPath(Unwrap(uri.path_and_query))
    ELSE << SLASH >>

\* Uri::query
UriQuery(uri) ==
    IF IsSome(uri.path_and_query) THEN PqQuery(Unwrap(uri.path_and_query))
    ELSE None

\* Uri::from_parts: a scheme needs an authority and a path, and an authority
\* with a path needs a scheme
UriFromPartsOk(parts) ==
    /\ IsSome(parts.scheme) =>
           IsSome(parts.authority) /\ IsSome(parts.path_and_query)
    /\ (IsSome(parts.authority) /\ IsSome(parts.path_and_query)) =>
           IsSome(parts.scheme)

\* a relative reference "/..." parsed as a Uri (str::parse::<Uri>)
RelUri(s) == MkUri(None, None, Some(s))
RelUriParses(s) == Len(s) > 0 /\ PathAndQueryParses(s)

\* ------------------------------------------------------------------- routes

Mandatory == "Mandatory"
Opportunistic == "Opportunistic"
Disabled == "Disabled"
AuthDirective == {Mandatory, Opportunistic, Disabled}

Plain == "Plain"
AuthlyMesh == "AuthlyMesh"
BackendClass == {Plain, AuthlyMesh}

\* Route::Proxy(Proxy { backend_uri, backend_class, replace_prefix, auth_directive_fn })
RouteProxy(proxy) == [tag |-> "Proxy", proxy |-> proxy]
\* Route::Local(service)
RouteLocal(service) == [tag |-> "Local", service |-> service]
\* Route::TemporaryRedirect(uri)
RouteTemporaryRedirect(uri) == [tag |-> "TemporaryRedirect", uri |-> uri]

\* Proxy::from_backend_uri
from_backend_uri(uri) ==
    [backend_uri |-> uri, backend_class |-> Plain,
     replace_prefix |-> None, auth_directive |-> Disabled]

with_backend_class(proxy, class) == [proxy EXCEPT !.backend_class = class]
with_auth_directive_fn(proxy, d) == [proxy EXCEPT !.auth_directive = d]
with_replace_prefix(proxy, r) == [proxy EXCEPT !.replace_prefix = Some(r)]

\* LocalService::replace_prefix (no service overrides the default)
local_replace_prefix(service) == Some(<< SLASH >>)

\* ------------------------------------------------------------------- router

\* A matchit::Router is the set of its (pattern, value) entries; no two
\* entries have the same pattern.
CATCHALL == "{*path}"

EmptyRouter == {}

IsCatchAll(pat) == Len(pat) > 0 /\ pat[Len(pat)] = CATCHALL

\* the literal part of a pattern
Literal(pat) == IF IsCatchAll(pat) THEN SubSeq(pat, 1, Len(pat) - 1) ELSE pat

Patterns(router) == {e.pat : e \in router}

\* Router::insert: Err(Conflict) when the pattern is already there
InsertOk(router, pat) == pat \notin Patterns(router)
RouterInsert(router, pat, route) == router \cup {[pat |-> pat, value |-> route]}

ValueOf(router, pat) == (CHOOSE e \in router : e.pat = pat).value

\* Router::at walks the trie: at the node reached by the first i symbols of
\* path a static child is tried first, and when the walk below it fails the
\* search backtracks to the catch-all child of this node.  A catch-all never
\* matches an empty remainder.
MatchErr == [ok |-> FALSE]
MatchOk(value, params) == [ok |-> TRUE, value |-> value, params |-> params]

RECURSIVE Walk(_, _, _)
Walk(router, path, i) ==
    LET here == SubSeq(path, 1, i)
        rest == SubSeq(path, i + 1, Len(path))
    IN  IF i = Len(path)
        THEN IF path \in Patterns(router)
             THEN MatchOk(ValueOf(router, path), None)
             ELSE MatchErr
        ELSE LET static ==
                     IF \E p \in Patterns(router) :
                            IsPrefixOf(SubSeq(path, 1, i + 1), Literal(p))
                     THEN Walk(router, path, i + 1)
                     ELSE MatchErr
             IN  IF static.ok THEN static
                 ELSE IF Append(here, CATCHALL) \in Patterns(router)
                 THEN MatchOk(ValueOf(router, Append(here, CATCHALL)), Some(rest))
                 ELSE MatchErr

\* a walk that takes the catch-all of a node before looking below it
RECURSIVE WalkCatchAllFirst(_, _, _)
WalkCatchAllFirst(router, path, i) ==
    LET here == SubSeq(path, 1, i)
        rest == SubSeq(path, i + 1, Len(path))
    IN  IF i = Len(path)
        THEN IF path \in Patterns(router)
             THEN MatchOk(ValueOf(router, path), None)
             ELSE MatchErr
        ELSE IF Append(here, CATCHALL) \in Patterns(router)
        THEN MatchOk(ValueOf(router, Append(here, CATCHALL)), Some(rest))
        ELSE IF \E p \in Patterns(router) :
                    IsPrefixOf(SubSeq(path, 1, i + 1), Literal(p))
        THEN WalkCatchAllFirst(router, path, i + 1)
        ELSE MatchErr

RouterAtCatchAllFirst(router, path) == WalkCatchAllFirst(router, path, 0)

RouterAt(router, path) == Walk(router, path, 0)

\* ------------------------------------------------------------ static routes

FaviconPng == << SLASH, "static", SLASH, "favicon.png" >>
OntoSlash == << SLASH, "onto", SLASH >>
DocsSlash == << SLASH, "docs", SLASH >>

\* static_routes: every insert succeeds, as no two patterns are the same
static_routes ==
    LET r1 == RouterInsert(EmptyRouter, << SLASH, "health" >>, RouteLocal("Health"))
        r2 == RouterInsert(r1, << SLASH, "favicon.ico" >>,
                           RouteTemporaryRedirect(RelUri(FaviconPng)))
        r3 == RouterInsert(r2, << SLASH, "favicon.svg" >>,
                           RouteTemporaryRedirect(RelUri(FaviconPng)))
        r4 == RouterInsert(r3, << SLASH, "favicon.png" >>,
                           RouteTemporaryRedirect(RelUri(FaviconPng)))
        r5 == RouterInsert(r4, << SLASH >>, RouteTemporaryRedirect(RelUri(OntoSlash)))
        r6 == RouterInsert(r5, << SLASH, "onto" >>,
                           RouteTemporaryRedirect(RelUri(OntoSlash)))
        r7 == RouterInsert(r6, OntoSlash, RouteLocal("Onto"))
        r8 == RouterInsert(r7, Append(OntoSlash, CATCHALL), RouteLocal("Onto"))
        r9 == RouterInsert(r8, << SLASH, "docs" >>,
                           RouteTemporaryRedirect(RelUri(DocsSlash)))
        r10 == RouterInsert(r9, DocsSlash, RouteLocal("Docs"))
        r11 == RouterInsert(r10, Append(DocsSlash, CATCHALL), RouteLocal("Docs"))
    IN  RouterInsert(r11, << SLASH, "static", SLASH, CATCHALL >>, RouteLocal("Static"))

\* ------------------------------------------------------------ route compiler

\* HTTPRouteRulesMatchesPathType
PathPrefix == "PathPrefix"
Exact == "Exact"
RegularExpression == "RegularExpression"

AUTHLY_ID == "authly.id"

\* the port from which AuthlyMesh is inferred
MeshPort == 443

\* an insert that, on a conflict, removes the entry that is already there
try_insert_route_evicting(output, path, route) ==
    IF InsertOk(output, path) THEN RouterInsert(output, path, route)
    ELSE {e \in output : e.pat # path}

\* an insert that replaces the entry of a pattern that is already there
try_insert_route_replacing(output, path, route) ==
    RouterInsert({e \in output : e.pat # path}, path, route)

\* try_insert_route: a conflicting insert is dropped
try_insert_route(output, path, route) ==
    UNION {IF InsertOk(router, path) THEN RouterInsert(router, path, route) ELSE router :
               router \in {output}}

\* the outcome of a step of try_add_http_route: the router as mutated so
\* far, and whether the step returned an error
Step(output, ok) == [output |-> output, ok |-> ok]

\* a scan that takes every authly.id extension of a backend ref for mesh
RECURSIVE BackendClassOfAnyName(_, _, _)
BackendClassOfAnyName(filters, i, class) ==
    IF i > Len(filters) THEN class
    ELSE LET ext == filters[i].extension_ref
         IN  BackendClassOfAnyName(filters, i + 1,
                 IF IsSome(ext) /\ Unwrap(ext).group = AUTHLY_ID
                 THEN AuthlyMesh ELSE class)

\* the scan of a backend ref's filters
RECURSIVE BackendClassOf(_, _, _)
BackendClassOf(filters, i, class) ==
    IF i > Len(filters) THEN class
    ELSE LET ext == filters[i].extension_ref
         IN  BackendClassOf(filters, i + 1,
                 IF IsSome(ext) /\ Unwrap(ext).group = AUTHLY_ID
                    /\ Unwrap(ext).name = "mesh"
                 THEN AuthlyMesh ELSE class)

\* a scan that reads the name of an extension ref whatever its group
RECURSIVE ScanRuleFiltersAnyGroup(_, _, _)
ScanRuleFiltersAnyGroup(filters, i, acc) ==
    IF i > Len(filters) THEN acc
    ELSE LET f == filters[i]
             ext == f.extension_ref
             rw == IF IsSome(f.url_rewrite) THEN f.url_rewrite ELSE acc.url_rewrite
             name == IF IsSome(ext) THEN Unwrap(ext).name ELSE "<no extension>"
             dir == IF name \in {"authn", "authn-mandatory"} THEN Mandatory
                    ELSE IF name = "authn-opportunistic" THEN Opportunistic
                    ELSE IF name = "authn-disabled" THEN Disabled
                    ELSE acc.auth_directive
         IN  ScanRuleFiltersAnyGroup(filters, i + 1,
                                     [url_rewrite |-> rw, auth_directive |-> dir])

\* the scan of a rule's filters: the last URLRewrite and the last recognised
\* authly.id extension win
RECURSIVE ScanRuleFilters(_, _, _)
ScanRuleFilters(filters, i, acc) ==
    IF i > Len(filters) THEN acc
    ELSE LET f == filters[i]
             ext == f.extension_ref
             rw == IF IsSome(f.url_rewrite) THEN f.url_rewrite ELSE acc.url_rewrite
             name == IF IsSome(ext) /\ Unwrap(ext).group = AUTHLY_ID
                     THEN Unwrap(ext).name ELSE "<other group>"
             dir == IF name \in {"authn", "authn-mandatory"} THEN Mandatory
                    ELSE IF name = "authn-opportunistic" THEN Opportunistic
                    ELSE IF name = "authn-disabled" THEN Disabled
                    ELSE acc.auth_directive
         IN  ScanRuleFilters(filters, i + 1,
                             [url_rewrite |-> rw, auth_directive |-> dir])

\* a redirect that goes from the terminated value to the stripped one
TrailingSlashRedirectSwapped(value) ==
    IF ~EndsWithSlash(value)
    THEN [source |-> value, target |-> Append(value, SLASH)]
    ELSE [source |-> value, target |-> StripTrailingSlashes(value)]

\* the redirect of a PathPrefix value: from the value to the value with a
\* '/' appended, or from the value without its trailing '/'s to the value
TrailingSlashRedirect(value) ==
    IF ~EndsWithSlash(value)
    THEN [source |-> value, target |-> Append(value, SLASH)]
    ELSE [source |-> StripTrailingSlashes(value), target |-> value]

\* one route_match of a rule
AddMatch(output, rule, backend_uri, backend_class, route_match) ==
    LET scan == IF IsSome(rule.filters)
                THEN ScanRuleFilters(Unwrap(rule.filters), 1,
                         [url_rewrite |-> None, auth_directive |-> Disabled])
                ELSE [url_rewrite |-> None, auth_directive |-> Disabled]
    IN  IF ~IsSome(route_match.path) THEN Step(output, TRUE)
        ELSE LET path == Unwrap(route_match.path)
             IN  IF ~IsSome(path.value) THEN Step(output, TRUE)
                 ELSE
    LET value == Unwrap(path.value)
        proxy0 == with_auth_directive_fn(
                      with_backend_class(from_backend_uri(backend_uri), backend_class),
                      scan.auth_directive)
        type == IF IsSome(path.type) THEN Unwrap(path.type) ELSE PathPrefix
    IN  IF type = PathPrefix
        THEN LET redirect == TrailingSlashRedirect(value)
                 target == redirect.target
                 source == redirect.source
                 prefix == target
                 rw == scan.url_rewrite
                 rp == IF IsSome(rw) /\ IsSome(Unwrap(rw).path)
                       THEN Unwrap(Unwrap(rw).path).replace_prefix_match
                       ELSE None
                 proxy == IF IsSome(rp)
                          THEN IF EndsWithSlash(Unwrap(rp))
                               THEN with_replace_prefix(proxy0, Unwrap(rp))
                               ELSE with_replace_prefix(proxy0, Append(Unwrap(rp), SLASH))
                          ELSE proxy0
                 o1 == try_insert_route(output, source,
                                        RouteTemporaryRedirect(RelUri(target)))
                 o2 == try_insert_route(o1, prefix, RouteProxy(proxy))
                 o3 == try_insert_route(o2, Append(prefix, CATCHALL), RouteProxy(proxy))
             IN  IF ~RelUriParses(target) THEN Step(output, FALSE)
                 ELSE Step(o3, TRUE)
        ELSE IF type = Exact
        THEN Step(try_insert_route(output, value, RouteProxy(proxy0)), TRUE)
        ELSE Step(output, TRUE)

RECURSIVE AddMatches(_, _, _, _, _, _)
AddMatches(output, rule, backend_uri, backend_class, matches, i) ==
    IF i > Len(matches) THEN Step(output, TRUE)
    ELSE CHOOSE next \in
             {IF ~s.ok THEN s
              ELSE AddMatches(s.output, rule, backend_uri, backend_class, matches, i + 1) :
                  s \in {AddMatch(output, rule, backend_uri, backend_class, matches[i])}} :
             TRUE

\* one rule of an HTTPRoute
AddRule(output, rule) ==
    IF ~IsSome(rule.backend_refs) \/ Len(Unwrap(rule.backend_refs)) = 0
    THEN Step(output, TRUE)
    ELSE LET backend_ref == Unwrap(rule.backend_refs)[1]
         IN  IF ~IsSome(backend_ref.port) THEN Step(output, TRUE)
             ELSE
    LET backend_port == Unwrap(backend_ref.port)
        class0 == IF IsSome(backend_ref.filters)
                  THEN BackendClassOf(Unwrap(backend_ref.filters), 1, Plain)
                  ELSE Plain
        backend_class == IF backend_port = MeshPort THEN AuthlyMesh ELSE class0
        backend_protocol == IF backend_port = MeshPort \/ backend_class = AuthlyMesh
                            THEN "https" ELSE "http"
        backend_uri == [scheme |-> backend_protocol,
                        authority |-> [host |-> backend_ref.name, port |-> backend_port]]
    IN  IF backend_ref.name = BAD THEN Step(output, FALSE)
        ELSE IF ~IsSome(rule.matches) THEN Step(output, TRUE)
        ELSE AddMatches(output, rule, backend_uri, backend_class,
                        Unwrap(rule.matches), 1)

RECURSIVE AddRules(_, _, _)
AddRules(output, rules, i) ==
    IF i > Len(rules) THEN Step(output, TRUE)
    ELSE CHOOSE next \in
             {IF ~s.ok THEN s ELSE AddRules(s.output, rules, i + 1) :
                  s \in {AddRule(output, rules[i])}} :
             TRUE

\* try_add_http_route: on an error the entries inserted before it stay
try_add_http_route(output, http_route) ==
    IF IsSome(http_route.spec.rules)
    THEN AddRules(output, Unwrap(http_route.spec.rules), 1)
    ELSE Step(output, TRUE)

\* rebuild_routing_table over the map k8s_routes, iterated in the order
\* `order` (a HashMap iterates in an arbitrary order)
RECURSIVE AddRoutes(_, _, _, _)
AddRoutes(output, k8s, order, i) ==
    IF i > Len(order) THEN output
    ELSE AddRoutes(try_add_http_route(output, k8s[order[i]]).output,
                   k8s, order, i + 1)

rebuild_routing_table(k8s, order) == AddRoutes(static_routes, k8s, order, 1)

\* filter_k8s_http_route: the route has a name and names arx among its parents
GATEWAY_NAME == "arx"

filter_k8s_http_route(http_route) ==
    /\ IsSome(http_route.name)
    /\ IsSome(http_route.spec.parent_refs)
    /\ \E i \in 1..Len(Unwrap(http_route.spec.parent_refs)) :
           Unwrap(http_route.spec.parent_refs)[i] = GATEWAY_NAME

\* ------------------------------------------------------------------ cookies

\* str::trim over the symbol " "
RECURSIVE TrimStart(_)
TrimStart(s) == IF Len(s) > 0 /\ s[1] = " " THEN TrimStart(Tail(s)) ELSE s
RECURSIVE TrimEnd(_)
TrimEnd(s) ==
    IF Len(s) > 0 /\ s[Len(s)] = " " THEN TrimEnd(SubSeq(s, 1, Len(s) - 1)) ELSE s
Trim(s) == TrimEnd(TrimStart(s))

\* str::split(';')
RECURSIVE SplitSemi(_)
SplitSemi(s) ==
    LET i == IndexFrom(s, ";", 1)
    IN  IF i = 0 THEN << s >>
        ELSE << SubSeq(s, 1, i - 1) >> \o SplitSemi(SubSeq(s, i + 1, Len(s)))

\* cookie::Cookie::parse: "name=value" with a non-empty name, both trimmed
CookieParse(s) ==
    LET i == IndexFrom(s, "=", 1)
    IN  IF i = 0 \/ Trim(SubSeq(s, 1, i - 1)) = << >> THEN None
        ELSE Some([name |-> Trim(SubSeq(s, 1, i - 1)),
                   value |-> Trim(SubSeq(s, i + 1, Len(s)))])

\* the cookies of all Cookie header values, in header order
RECURSIVE ParseAll(_, _)
ParseAll(pieces, i) ==
    IF i > Len(pieces) THEN << >>
    ELSE CookieParse(pieces[i]) \o ParseAll(pieces, i + 1)

RECURSIVE AllCookies(_, _)
AllCookies(lines, i) ==
    IF i > Len(lines) THEN << >>
    ELSE ParseAll(SplitSemi(lines[i]), 1) \o AllCookies(lines, i + 1)

\* cookie_jar: add_original replaces a cookie of the same name
cookie_jar(headers) == AllCookies(headers.cookie, 1)

\* CookieJar::get: the cookie added last under that name
JarGet(jar, name) ==
    LET idx == {i \in 1..Len(jar) : jar[i].name = name}
    IN  IF idx = {} THEN None
        ELSE Some(jar[CHOOSE i \in idx : \A j \in idx : j <= i])

SESSION_COOKIE == << "session-cookie" >>

\* ------------------------------------------------------------ authentication

NotAuthenticated == "NotAuthenticated"

\* Mandatory without an identity client passes
process_auth_directive_lenient(auth_directive, target_headers, client) ==
    IF auth_directive = Mandatory /\ IsSome(client)
    THEN IF IsSome(JarGet(cookie_jar(target_headers), SESSION_COOKIE))
         THEN "exchange" ELSE NotAuthenticated
    ELSE IF auth_directive = Opportunistic /\ IsSome(client)
    THEN IF IsSome(JarGet(cookie_jar(target_headers), SESSION_COOKIE))
         THEN "exchange" ELSE "ok"
    ELSE "ok"

\* Disabled handled like Opportunistic
process_auth_directive_eager(auth_directive, target_headers, client) ==
    IF auth_directive = Mandatory /\ IsSome(client)
    THEN IF IsSome(JarGet(cookie_jar(target_headers), SESSION_COOKIE))
         THEN "exchange" ELSE NotAuthenticated
    ELSE IF auth_directive = Mandatory THEN NotAuthenticated
    ELSE IF IsSome(client)
    THEN IF IsSome(JarGet(cookie_jar(target_headers), SESSION_COOKIE))
         THEN "exchange" ELSE "ok"
    ELSE "ok"

\* Opportunistic handled like Mandatory when the cookie is missing
process_auth_directive_strict(auth_directive, target_headers, client) ==
    IF auth_directive \in {Mandatory, Opportunistic} /\ IsSome(client)
    THEN IF IsSome(JarGet(cookie_jar(target_headers), SESSION_COOKIE))
         THEN "exchange" ELSE NotAuthenticated
    ELSE IF auth_directive = Mandatory THEN NotAuthenticated
    ELSE "ok"

\* process_auth_directive up to its first await: the result when it returns
\* at once, or "exchange" when it goes on to inject_access_token
process_auth_directive(auth_directive, target_headers, client) ==
    IF auth_directive = Mandatory /\ IsSome(client)
    THEN IF IsSome(JarGet(cookie_jar(target_headers), SESSION_COOKIE))
         THEN "exchange" ELSE NotAuthenticated
    ELSE IF auth_directive = Mandatory THEN NotAuthenticated
    ELSE IF auth_directive = Opportunistic /\ IsSome(client)
    THEN IF IsSome(JarGet(cookie_jar(target_headers), SESSION_COOKIE))
         THEN "exchange" ELSE "ok"
    ELSE "ok"

\* the argument of get_access_token: the session cookie's value
ExchangeArg(target_headers) ==
    Unwrap(JarGet(cookie_jar(target_headers), SESSION_COOKIE)).value

\* format!("Bearer: {}", access_token.token)
BearerValue(token) == << "Bearer", ":", " ", token >>

\* inject_access_token once get_access_token has returned `outcome`
\* (Some(token) or None for an error)
inject_access_token(target_headers, outcome) ==
    IF IsSome(outcome)
    THEN [result |-> "ok",
          headers |-> [target_headers EXCEPT
                          !.authorization = Some(BearerValue(Unwrap(outcome)))]]
    ELSE [result |-> NotAuthenticated, headers |-> target_headers]

\* ------------------------------------------------------------- uri rewriting

\* rewrite_proxied_uri(original, target_uri, matchit, replace_prefix);
\* target_uri is an option of a backend uri, params the match's "path"
\* parameter
HttpError(status, msg) == [ok |-> FALSE, status |-> status, msg |-> msg]

\* a rewrite that forgets the query when it replaces the prefix
rewrite_proxied_uri_no_query(original, target_uri, params, replace_prefix) ==
    LET scheme == IF IsSome(target_uri) THEN Some(Unwrap(target_uri).scheme)
                  ELSE original.scheme
        authority == IF IsSome(target_uri) THEN Some(Unwrap(target_uri).authority)
                     ELSE original.authority
        new_path_query ==
            Unwrap(replace_prefix)
            \o (IF IsSome(params) THEN Unwrap(params) ELSE << >>)
        pq == IF IsSome(replace_prefix) THEN Some(new_path_query)
              ELSE original.path_and_query
    IN  [ok |-> TRUE, uri |-> MkUri(scheme, authority, pq)]

rewrite_proxied_uri(original, target_uri, params, replace_prefix) ==
    LET scheme == IF IsSome(target_uri) THEN Some(Unwrap(target_uri).scheme)
                  ELSE original.scheme
        authority == IF IsSome(target_uri) THEN Some(Unwrap(target_uri).authority)
                     ELSE original.authority
        query == UriQuery(original)
        new_path_query ==
            Unwrap(replace_prefix)
            \o (IF IsSome(params) THEN Unwrap(params) ELSE << >>)
            \o (IF IsSome(query) THEN << "?" >> \o Unwrap(query) ELSE << >>)
        pq == IF IsSome(replace_prefix) THEN Some(new_path_query)
              ELSE original.path_and_query
        parts == MkUri(scheme, authority, pq)
    IN  IF IsSome(replace_prefix) /\ ~PathAndQueryParses(new_path_query)
        THEN HttpError(500, "uri problem")
        ELSE IF ~UriFromPartsOk(parts) THEN HttpError(500, "invalid uri")
        ELSE [ok |-> TRUE, uri |-> parts]

\* --------------------------------------------------------------- match_route

\* the host of cfg.authly_url
AUTHLY_HOST == "authly"

\* Gateway::match_route on the loaded table `routes`: a RouteMatch or an
\* HttpError
\* the headers match_route inserts: x-forwarded-proto when the original URI
\* has a scheme, x-forwarded-prefix when a prefix was stripped
insert_forwarded(headers, scheme, prefix) ==
    LET h1 == IF IsSome(scheme)
              THEN [headers EXCEPT !.x_forwarded_proto = scheme]
              ELSE headers
    IN  IF IsSome(prefix)
        THEN [h1 EXCEPT !.x_forwarded_prefix = prefix]
        ELSE h1

\* an answer to an unmatched path that names no reason
NotFoundSilent == HttpError(404, "")

\* the error of match_route when the router has no entry for the path
NotFound == HttpError(404, "Not found")

match_route(routes, req) ==
    LET matchit == RouterAt(routes, UriPath(req.uri))
    IN  IF ~matchit.ok THEN NotFound
        ELSE IF matchit.value.tag = "Proxy"
        THEN LET proxy == matchit.value.proxy
                 original_uri == req.uri
                 rw == rewrite_proxied_uri(req.uri, Some(proxy.backend_uri),
                                           matchit.params, proxy.replace_prefix)
                 scheme == original_uri.scheme
                 prefix == StripSuffix(UriPath(original_uri), UriPath(rw.uri))
                 h2 == insert_forwarded(req.headers, scheme, prefix)
             IN  IF ~rw.ok THEN rw
                 ELSE [ok |-> TRUE, tag |-> "Proxy",
                       http_client |->
                           IF proxy.backend_uri.authority.host = AUTHLY_HOST
                           THEN "authly" ELSE "default",
                       req |-> [uri |-> rw.uri, headers |-> h2],
                       auth_directive |-> proxy.auth_directive]
        ELSE IF matchit.value.tag = "TemporaryRedirect"
        THEN [ok |-> TRUE, tag |-> "TemporaryRedirect", uri |-> matchit.value.uri]
        ELSE LET rw == rewrite_proxied_uri(req.uri, None, matchit.params,
                                           local_replace_prefix(matchit.value.service))
             IN  IF ~rw.ok THEN rw
                 ELSE [ok |-> TRUE, tag |-> "LocalService",
                       req |-> [uri |-> rw.uri, headers |-> req.headers],
                       service |-> matchit.value.service]

\* ---------------------------------------------------------------- headers.rs
\* A header value is a sequence of symbols; OPAQUE stands for bytes that
\* are legal in a header value but are not visible ASCII.
OPAQUE == "<obs-text>"

\* HeaderValue::to_str
ToStr(value) == IF Contains(value, OPAQUE) THEN None ELSE Some(value)

\* HeaderValue::from_str
HeaderValueFromStrOk(str) == ~Contains(str, BAD) /\ ~Contains(str, OPAQUE)

\* str::split_once(':')
SplitOnceColon(str) ==
    LET i == IndexFrom(str, ":", 1)
    IN  IF i = 0 THEN None
        ELSE Some([host |-> SubSeq(str, 1, i - 1), port |-> SubSeq(str, i + 1, Len(str))])

\* x-forwarded-prefix taken from the stripped prefix alone
new_prefix_replacing(prev, prefix) == prefix

\* the new x-forwarded-prefix value of set_proxy_headers
new_prefix(prev, prefix) ==
    IF IsSome(prev) /\ IsSome(ToStr(Unwrap(prev)))
    THEN Unwrap(ToStr(Unwrap(prev))) \o prefix
    ELSE prefix

\* host_port of set_proxy_headers: the Host header split at its first ':'
host_port_of(host_header) ==
    IF IsSome(host_header) /\ IsSome(ToStr(Unwrap(host_header)))
    THEN SplitOnceColon(Unwrap(host_header))
    ELSE None

\* set_proxy_headers: req is the request with its rewritten URI
set_proxy_headers(req, original_uri) ==
    LET prefix == StripSuffix(UriPath(original_uri), UriPath(req.uri))
        host_port == host_port_of(req.headers.host)
        h0 == [req.headers EXCEPT !.host = None]
        h1 == IF ~IsSome(h0.x_forwarded_proto)
              THEN [h0 EXCEPT !.x_forwarded_proto = Some(<< "http" >>)]
              ELSE h0
        set_host == ~IsSome(h1.x_forwarded_host) /\ IsSome(host_port)
        h2 == IF set_host
              THEN [h1 EXCEPT !.x_forwarded_host = Some(Unwrap(host_port).host)]
              ELSE h1
        set_port == ~IsSome(h2.x_forwarded_port) /\ IsSome(host_port)
        h3 == IF set_port
              THEN [h2 EXCEPT !.x_forwarded_port = Some(Unwrap(host_port).port)]
              ELSE h2
        value == new_prefix(h3.x_forwarded_prefix, Unwrap(prefix))
        h4 == IF IsSome(prefix)
              THEN [h3 EXCEPT !.x_forwarded_prefix = Some(value)]
              ELSE h3
    IN  IF set_host /\ ~HeaderValueFromStrOk(Unwrap(host_port).host)
        THEN HttpError(400, "")
        ELSE IF set_port /\ ~HeaderValueFromStrOk(Unwrap(host_port).port)
        THEN HttpError(400, "")
        ELSE IF IsSome(prefix) /\ ~HeaderValueFromStrOk(value)
        THEN HttpError(400, "")
        ELSE [ok |-> TRUE, req |-> [req EXCEPT !.headers = h4]]

\* an error answered with its status only
into_hyper_response_no_body(error) ==
    [status |-> error.status, body |-> "", location |-> None]

\* HttpError::into_hyper_response
into_hyper_response(error) ==
    [status |-> error.status, body |-> error.msg, location |-> None]

\* a redirect answered as a permanent one
RedirectResponsePermanent(uri) ==
    [status |-> 308, body |-> "", location |-> Some(uri)]

\* the 307 of a RouteMatch::TemporaryRedirect
RedirectResponse(uri) ==
    [status |-> 307, body |-> "", location |-> Some(uri)]

\* ------------------------------------------------------------ watched routes

\* the HTTPRoute resources the control plane may send
ExtFilter(name) ==
    [url_rewrite |-> None,
     extension_ref |-> Some([group |-> AUTHLY_ID, name |-> name])]
RewriteFilter(r) ==
    [url_rewrite |-> Some([path |-> Some([replace_prefix_match |-> Some(r)])]),
     extension_ref |-> None]
PathMatch(type, value) == [path |-> Some([type |-> type, value |-> Some(value)])]
BackendRef(name, port) == [name |-> name, port |-> Some(port), filters |-> None]
Rule(matches, filters, backend_refs) ==
    [matches |-> Some(matches), filters |-> filters, backend_refs |-> Some(backend_refs)]
RouteSpec(parents, rules) == [parent_refs |-> Some(parents), rules |-> Some(rules)]

\* the shape of the authly_auth_whitelist test: a whitelisted sub-prefix
\* before a prefix that must authenticate
SpecAuthly ==
    RouteSpec(<< GATEWAY_NAME >>,
        << Rule(<< PathMatch(None, << SLASH, "a", SLASH, "b" >>) >>,
                Some(<< RewriteFilter(<< SLASH, "b" >>) >>),
                << BackendRef("authly", 443) >>),
           Rule(<< PathMatch(None, << SLASH, "a" >>) >>,
                Some(<< ExtFilter("authn"), RewriteFilter(<< SLASH >>) >>),
                << BackendRef("authly", 443) >>) >>)

\* a plain service: a prefix that overlaps SpecAuthly, patterns that meet
\* the static routes, and the root prefix
SpecSvc ==
    RouteSpec(<< "other", GATEWAY_NAME >>,
        << Rule(<< PathMatch(Some(PathPrefix), << SLASH, "a", SLASH >>) >>,
                Some(<< ExtFilter("authn-opportunistic") >>),
                << BackendRef("svc", 80) >>),
           Rule(<< PathMatch(Some(Exact), << SLASH, "onto", SLASH, "a" >>),
                   PathMatch(Some(PathPrefix), << SLASH, "health" >>) >>,
                None,
                << BackendRef("svc", 80) >>),
           Rule(<< PathMatch(Some(PathPrefix), << SLASH >>) >>,
                Some(<< ExtFilter("authn-mandatory"), ExtFilter("authn-disabled") >>),
                << BackendRef("svc", 80) >>) >>)

\* a route of another gateway
SpecOther ==
    RouteSpec(<< "other" >>,
        << Rule(<< PathMatch(Some(PathPrefix), << SLASH, "b" >>) >>,
                None,
                << BackendRef("svc", 80) >>) >>)

RouteNames == {"n1", "n2"}
RouteKinds == {"authly", "svc", "other"}

SpecOf(kind) ==
    CASE kind = "authly" -> SpecAuthly
      [] kind = "svc" -> SpecSvc
      [] kind = "other" -> SpecOther

\* The state names a resource by its name and the kind of its spec;
\* Resource gives the HTTPRoute object itself.
HTTPRoutes == [name : RouteNames, kind : RouteKinds]
Resource(id) == [name |-> Some(id.name), spec |-> SpecOf(id.kind)]

\* ----------------------------------------------------------------- requests

Requests == {"req1"}

Segs == {"a", "b"}

\* "/" followed by up to d segments separated by "/", with or without a
\* trailing "/"
RECURSIVE PathsOfDepth(_)
PathsOfDepth(d) ==
    IF d = 0 THEN {<< SLASH >>}
    ELSE LET shorter == PathsOfDepth(d - 1)
             dirs == {p \in shorter : EndsWithSlash(p)}
         IN  shorter \cup {Append(p, sg) : p \in dirs, sg \in Segs}
                     \cup {Append(Append(p, sg), SLASH) : p \in dirs, sg \in Segs}

RequestPaths ==
    PathsOfDepth(MaxDepth)
    \cup {<< SLASH, "health" >>, << SLASH, "onto", SLASH >>, << SLASH, "onto", SLASH, "a" >>}

RequestQueries == {None, Some(<< >>), Some(<< "q", "?", "x" >>)}

CookieHeaders ==
    { << >>,
      << << "x", "=", "y" >> >>,
      << << "x", "=", "y", ";", " ", "session-cookie", "=", "s1" >> >> }

ClientAuthorization == {None, Some(<< "Basic", " ", "c" >>)}

\* an inbound request in origin form
InboundRequest(path, query, cookie, authorization) ==
    [uri |-> MkUri(None, None,
                   Some(path \o (IF IsSome(query) THEN << "?" >> \o Unwrap(query)
                                 ELSE << >>))),
     headers |-> [cookie |-> cookie, authorization |-> authorization,
                  x_forwarded_proto |-> None, x_forwarded_prefix |-> None]]

InboundRequests ==
    {InboundRequest(p, q, c, a) :
        p \in RequestPaths, q \in RequestQueries,
        c \in CookieHeaders, a \in ClientAuthorization}

Tokens == {"t1"}

\* -------------------------------------------------------------------- state

VARIABLES
    k8s_routes,      \* HttpRouteWatcher.k8s_routes: name -> option of resource
    gateway_routes,  \* the ArcSwap's current Arc<matchit::Router<Route>>
    authly_client,   \* GatewayState.authly_client, an option
    pc,              \* where each request task stands
    req,             \* the inbound request
    snap,            \* the table the request loaded in match_route
    guard,           \* whether the request holds the ArcSwap guard
    stale,           \* whether a table was published since the request's load
    result,          \* what match_route returned
    fwd,             \* the request as process_auth_directive leaves it
    auth,            \* the outcome of the auth directive
    exchange_log,    \* the get_access_token calls made for the request
    outbound,        \* what was sent to the backend
    inner,           \* what serve_request_inner returned
    resp,            \* the response to the client
    first_req,       \* header population: the request as the client sent it
    hop_req,         \* header population: the request after the proxies so far
    hops,            \* header population: per proxy passed, who set the headers
                     \* and the prefix it stripped
    ws_req,          \* upgrade path: the request handed to reverse_proxy
    ws_pc,           \* upgrade path: where reverse_proxy stands
    ws_outbound,     \* upgrade path: the requests issued to the backend
    ws_inner,        \* upgrade path: what reverse_proxy returned
    ws_resp,         \* upgrade path: the response to the client
    ws_client,       \* upgrade path: what the outbound client last yielded
    send_errs,       \* the tunnel's send calls that returned an error
    tunnel_pc,       \* the spawned tunnel task: where it stands
    front_recv,      \* what front_socket.next() has yielded, in order
    back_recv,       \* what back_socket.next() has yielded, in order
    front_sent,      \* the front_socket.send calls, in order
    back_sent,       \* the back_socket.send calls, in order
    front_closes,    \* the front_socket.close calls
    back_closes,     \* the back_socket.close calls
    tunnel_brk,      \* the value the tunnel loop broke with
    cancelled,       \* whether the process-wide CancellationToken has fired
    initial,         \* api_watcher's buffer of objects listed since Event::Init
    last_applied,    \* per resource name, the version the last Apply carried (history)
    watcher_pc,      \* where the api_watcher task of the routes stands
    holder_pc,       \* per HttpClient: where its background task stands
    holder_stream,   \* per HttpClient: the builders its stream has yet to yield
    holder_instance, \* per HttpClient: the instance its ArcSwap holds
    holder_built,    \* per HttpClient: the builders built with success, in order
    reader_pc,       \* a request that proxies: where it stands
    reader_held,     \* a request that proxies: the instance it took at its match
    reader_sent,     \* a request that proxies: the instances its sends went through
    cmp_cfg,         \* compression: the configuration
    cmp_resp,        \* compression: the response judged
    cmp_decision,    \* compression: what should_compress returned
    rc_input,        \* route compiler: the rules of the resource compiled
    rc_pc,           \* route compiler: how often the resource has been added
    rc_table,        \* route compiler: what try_add_http_route gave
    rc_match         \* route compiler: a request matched on the compiled table

header_vars == << first_req, hop_req, hops >>
task_vars == << cancelled, watcher_pc, initial, last_applied >>
holder_vars == << holder_pc, holder_stream, holder_instance, holder_built,
                 reader_pc, reader_held, reader_sent >>
compress_vars == << cmp_cfg, cmp_resp, cmp_decision >>
compile_vars == << rc_input, rc_pc, rc_table, rc_match >>
ws_vars == << ws_req, ws_pc, ws_outbound, ws_inner, ws_resp, ws_client, send_errs,
             tunnel_pc,
             front_recv, back_recv, front_sent, back_sent, front_closes, back_closes,
             tunnel_brk >>
watcher_vars == << k8s_routes, gateway_routes >>
request_vars == << pc, req, snap, guard, stale, result, fwd, auth, exchange_log,
                   outbound, inner, resp >>
vars == << k8s_routes, gateway_routes, authly_client, pc, req, snap, guard, stale,
           result, fwd, auth, exchange_log, outbound, inner, resp,
           first_req, hop_req, hops,
           ws_req, ws_pc, ws_outbound, ws_inner, ws_resp, ws_client, send_errs,
           tunnel_pc,
           front_recv, back_recv, front_sent, back_sent, front_closes, back_closes,
           tunnel_brk, cancelled, watcher_pc, initial, last_applied, holder_pc, holder_stream, holder_instance,
           holder_built, reader_pc, reader_held, reader_sent,
           cmp_cfg, cmp_resp, cmp_decision, rc_input, rc_pc, rc_table, rc_match >>

\* ------------------------------------------------------------------ watcher

\* the orders in which the entries of the map may be iterated
IterationOrders(k8s) ==
    LET present == {n \in RouteNames : IsSome(k8s[n])}
    IN  {o \in [1..Cardinality(present) -> present] :
            \A i, j \in 1..Cardinality(present) : i # j => o[i] # o[j]}

\* rebuild_routing_table tabulated over every map and iteration order, so
\* that a table is compiled once
AllMaps == [RouteNames -> {None} \cup {Some(o) : o \in HTTPRoutes}]
CompiledTables ==
    [k \in AllMaps |-> [o \in IterationOrders(k) |->
        rebuild_routing_table(
            [n \in {m \in RouteNames : IsSome(k[m])} |-> Resource(Unwrap(k[n]))], o)]]

\* Every table that can be compiled, in some fixed order.  An Arc of a
\* table is its index in AllTables: two Arcs are equal exactly when their
\* tables are.
RECURSIVE SetToSeq(_)
SetToSeq(S) ==
    IF S = {} THEN << >>
    ELSE LET x == CHOOSE x \in S : TRUE IN << x >> \o SetToSeq(S \ {x})

AllTables ==
    SetToSeq({static_routes} \cup
             UNION {{CompiledTables[k][o] : o \in IterationOrders(k)} : k \in AllMaps})

ArcOf(table) == CHOOSE i \in 1..Len(AllTables) : AllTables[i] = table
Table(arc) == AllTables[arc]

\* Arc::new(new_routes) for the table of every map and iteration order
ArcEntries ==
    UNION {{[k8s |-> k, order |-> o, arc |-> ArcOf(CompiledTables[k][o])] :
                o \in IterationOrders(k)} : k \in AllMaps}
NewArc(k, o) == (CHOOSE e \in ArcEntries : e.k8s = k /\ e.order = o).arc

\* run(): the table compiled from the empty map, no request in flight
\* no request is in header population
HeadersIdle ==
    /\ first_req = None
    /\ hop_req = None
    /\ hops = << >>

\* no request is on the upgrade path and no tunnel runs
WsIdle ==
    /\ ws_req = None
    /\ ws_pc = "idle"
    /\ ws_outbound = << >>
    /\ ws_inner = None
    /\ ws_resp = None
    /\ ws_client = None
    /\ send_errs = {}
    /\ tunnel_pc = "none"
    /\ front_recv = << >>
    /\ back_recv = << >>
    /\ front_sent = << >>
    /\ back_sent = << >>
    /\ front_closes = << >>
    /\ back_closes = << >>
    /\ tunnel_brk = None

\* the watcher task runs, the token has not fired
TasksIdle ==
    /\ cancelled = FALSE
    /\ watcher_pc = "running"
    /\ initial = << >>
    /\ last_applied = << >>

\* no client holder is looked at
HoldersIdle ==
    /\ holder_pc = << >>
    /\ holder_stream = << >>
    /\ holder_instance = << >>
    /\ holder_built = << >>
    /\ reader_pc = "idle"
    /\ reader_held = None
    /\ reader_sent = << >>

\* no resource is compiled on its own
CompileIdle ==
    /\ rc_input = None
    /\ rc_pc = "idle"
    /\ rc_table = None
    /\ rc_match = None

\* no response is judged for compression
CompressIdle ==
    /\ cmp_cfg = None
    /\ cmp_resp = None
    /\ cmp_decision = None

Init ==
    /\ k8s_routes = [n \in RouteNames |-> None]
    /\ gateway_routes = ArcOf(rebuild_routing_table(<< >>, << >>))
    /\ authly_client \in {None, Some("client")}
    /\ pc = [r \in Requests |-> "idle"]
    /\ req = [r \in Requests |-> None]
    /\ snap = [r \in Requests |-> None]
    /\ guard = [r \in Requests |-> FALSE]
    /\ stale = [r \in Requests |-> FALSE]
    /\ result = [r \in Requests |-> None]
    /\ fwd = [r \in Requests |-> None]
    /\ auth = [r \in Requests |-> "none"]
    /\ exchange_log = [r \in Requests |-> << >>]
    /\ outbound = [r \in Requests |-> None]
    /\ inner = [r \in Requests |-> None]
    /\ resp = [r \in Requests |-> None]
    /\ HeadersIdle
    /\ WsIdle
    /\ TasksIdle
    /\ HoldersIdle
    /\ CompressIdle
    /\ CompileIdle

\* HttpRouteWatcher::apply body: the objects that pass the filter are
\* inserted under their name
ApplyToMap(k8s, obj) ==
    IF filter_k8s_http_route(Resource(obj))
    THEN [k8s EXCEPT ![Unwrap(Resource(obj).name)] = Some(obj)]
    ELSE k8s

\* HttpRouteWatcher::delete body
DeleteFromMap(k8s, obj) ==
    IF filter_k8s_http_route(Resource(obj))
    THEN [k8s EXCEPT ![Unwrap(Resource(obj).name)] = None]
    ELSE k8s

\* update_routing_table storing the table of the map as it was before the
\* event
PublishPrevious(k8s) ==
    /\ \E order \in IterationOrders(k8s_routes) :
           gateway_routes' = NewArc(k8s_routes, order)
    /\ stale' = [r \in Requests |-> stale[r] \/ pc[r] \in {"loaded", "matched"}]

\* update_routing_table: the rebuilt table is stored; every request that
\* has loaded a table and not yet dispatched is now behind
Publish(k8s) ==
    /\ \E order \in IterationOrders(k8s) :
           gateway_routes' = NewArc(k8s, order)
    /\ stale' = [r \in Requests |-> stale[r] \/ pc[r] \in {"loaded", "matched"}]

\* Event::Apply
Apply(obj) ==
    /\ UNCHANGED << header_vars, ws_vars, task_vars, holder_vars, compress_vars, compile_vars >>
    /\ watcher_pc = "running"
    /\ k8s_routes' = ApplyToMap(k8s_routes, obj)
    /\ Publish(k8s_routes')
    /\ UNCHANGED << authly_client, pc, req, snap, guard, result, fwd, auth,
                    exchange_log, outbound, inner, resp >>

\* Event::Delete
Delete(obj) ==
    /\ UNCHANGED << header_vars, ws_vars, task_vars, holder_vars, compress_vars, compile_vars >>
    /\ watcher_pc = "running"
    /\ k8s_routes' = DeleteFromMap(k8s_routes, obj)
    /\ Publish(k8s_routes')
    /\ UNCHANGED << authly_client, pc, req, snap, guard, result, fwd, auth,
                    exchange_log, outbound, inner, resp >>

\* ------------------------------------------------------------ request tasks

\* self.state.routes.load() at the start of match_route
LoadRoutes == gateway_routes

\* serve_request on a new request, up to the table load
Load(r) ==
    /\ UNCHANGED << header_vars, ws_vars, task_vars, holder_vars, compress_vars, compile_vars >>
    /\ pc[r] = "idle"
    /\ \E rq \in InboundRequests : req' = [req EXCEPT ![r] = Some(rq)]
    /\ snap' = [snap EXCEPT ![r] = Some(LoadRoutes)]
    /\ guard' = [guard EXCEPT ![r] = TRUE]
    /\ stale' = [stale EXCEPT ![r] = FALSE]
    /\ pc' = [pc EXCEPT ![r] = "loaded"]
    /\ UNCHANGED << k8s_routes, gateway_routes, authly_client, result, fwd, auth,
                    exchange_log, outbound, inner, resp >>

\* a match that loads the table a second time
MatchedTableReloaded(r) == gateway_routes

\* the table match_route matches on: the one it loaded
MatchedTable(r) == Unwrap(snap[r])

\* a match_route whose guard outlives its return
MatchRouteHoldingGuard(r) ==
    /\ UNCHANGED << header_vars, ws_vars, task_vars, holder_vars, compress_vars, compile_vars >>
    /\ pc[r] = "loaded"
    /\ result' = [result EXCEPT ![r] = Some(match_route(Table(MatchedTable(r)), Unwrap(req[r])))]
    /\ pc' = [pc EXCEPT ![r] = "matched"]
    /\ UNCHANGED << k8s_routes, gateway_routes, authly_client, req, snap, guard, stale, fwd,
                    auth, exchange_log, outbound, inner, resp >>

\* the rest of match_route; its return drops the guard
MatchRoute(r) ==
    /\ UNCHANGED << header_vars, ws_vars, task_vars, holder_vars, compress_vars, compile_vars >>
    /\ pc[r] = "loaded"
    /\ result' = [result EXCEPT ![r] = Some(match_route(Table(MatchedTable(r)), Unwrap(req[r])))]
    /\ guard' = [guard EXCEPT ![r] = FALSE]
    /\ pc' = [pc EXCEPT ![r] = "matched"]
    /\ UNCHANGED << k8s_routes, gateway_routes, authly_client, req, snap, stale, fwd,
                    auth, exchange_log, outbound, inner, resp >>

\* reverse_proxy without an Upgrade header: the request as sent with client
reverse_proxy(request, client) == [client |-> client, request |-> request]

Unauthorized == into_hyper_response(HttpError(401, "unauthorized"))

\* Ok(response) of a Result<HyperResponse, HttpError>
Ok(response) == [ok |-> TRUE, response |-> response]

\* serve_request: the result of serve_request_inner becomes the response
serve_request(inner_result) ==
    IF inner_result.ok THEN inner_result.response
    ELSE into_hyper_response(inner_result)

\* a dispatcher that drops the result of the auth step
AfterAuthUnchecked(auth_result, request, client) ==
    [pc |-> "sent", outbound |-> Some(reverse_proxy(request, client)),
     inner |-> None, resp |-> None]

\* serve_request_inner once the auth step has returned auth_result: an
\* error is answered with 401, otherwise the proxy engine is called
AfterAuth(auth_result, request, client) ==
    IF auth_result = "ok"
    THEN [pc |-> "sent", outbound |-> Some(reverse_proxy(request, client)),
          inner |-> None, resp |-> None]
    ELSE [pc |-> "done", outbound |-> None,
          inner |-> Some(HttpError(401, "unauthorized")),
          resp |-> Some(serve_request(HttpError(401, "unauthorized")))]

\* serve_request_inner from the return of match_route to its first await
\* (or its return)
Dispatch(r) ==
    /\ UNCHANGED << header_vars, ws_vars, task_vars, holder_vars, compress_vars, compile_vars >>
    /\ pc[r] = "matched"
    /\ snap' = [snap EXCEPT ![r] = None]
    /\ stale' = [stale EXCEPT ![r] = FALSE]
    /\ LET m == Unwrap(result[r])
       IN  IF ~m.ok
           THEN /\ inner' = [inner EXCEPT ![r] = Some(m)]
                /\ resp' = [resp EXCEPT ![r] = Some(serve_request(m))]
                /\ pc' = [pc EXCEPT ![r] = "done"]
                /\ UNCHANGED << fwd, auth, exchange_log, outbound >>
           ELSE IF m.tag = "TemporaryRedirect"
           THEN /\ inner' = [inner EXCEPT ![r] = Some(Ok(RedirectResponse(m.uri)))]
                /\ resp' = [resp EXCEPT ![r] =
                                Some(serve_request(Ok(RedirectResponse(m.uri))))]
                /\ pc' = [pc EXCEPT ![r] = "done"]
                /\ UNCHANGED << fwd, auth, exchange_log, outbound >>
           ELSE IF m.tag = "LocalService"
           THEN /\ pc' = [pc EXCEPT ![r] = "local"]
                /\ UNCHANGED << fwd, auth, exchange_log, outbound, inner, resp >>
           ELSE LET d == process_auth_directive(m.auth_directive, m.req.headers,
                                                authly_client)
                IN  IF d = "exchange"
                    THEN /\ pc' = [pc EXCEPT ![r] = "exchange"]
                         /\ exchange_log' = [exchange_log EXCEPT ![r] =
                                Append(@, ExchangeArg(m.req.headers))]
                         /\ fwd' = [fwd EXCEPT ![r] = Some(m.req)]
                         /\ auth' = [auth EXCEPT ![r] = "exchange"]
                         /\ UNCHANGED << outbound, inner, resp >>
                    ELSE LET a == AfterAuth(d, m.req, m.http_client)
                         IN  /\ pc' = [pc EXCEPT ![r] = a.pc]
                             /\ outbound' = [outbound EXCEPT ![r] = a.outbound]
                             /\ inner' = [inner EXCEPT ![r] = a.inner]
                             /\ resp' = [resp EXCEPT ![r] = a.resp]
                             /\ fwd' = [fwd EXCEPT ![r] = Some(m.req)]
                             /\ auth' = [auth EXCEPT ![r] = d]
                             /\ UNCHANGED exchange_log
    /\ UNCHANGED << k8s_routes, gateway_routes, authly_client, req, guard, result >>

\* get_access_token returns: a token, or an error
ExchangeOutcomes == {None} \cup {Some(t) : t \in Tokens}

ExchangeReturn(r) ==
    /\ UNCHANGED << header_vars, ws_vars, task_vars, holder_vars, compress_vars, compile_vars >>
    /\ pc[r] = "exchange"
    /\ \E outcome \in ExchangeOutcomes :
         LET m == Unwrap(result[r])
             inj == inject_access_token(Unwrap(fwd[r]).headers, outcome)
             request == [Unwrap(fwd[r]) EXCEPT !.headers = inj.headers]
             a == AfterAuth(inj.result, request, m.http_client)
         IN  /\ fwd' = [fwd EXCEPT ![r] = Some(request)]
             /\ auth' = [auth EXCEPT ![r] = inj.result]
             /\ pc' = [pc EXCEPT ![r] = a.pc]
             /\ outbound' = [outbound EXCEPT ![r] = a.outbound]
             /\ inner' = [inner EXCEPT ![r] = a.inner]
             /\ resp' = [resp EXCEPT ![r] = a.resp]
    /\ UNCHANGED << k8s_routes, gateway_routes, authly_client, req, snap, guard, stale,
                    result, exchange_log >>

\* what client.request(..).send() may yield: a response with a status, or
\* an error that carries a status or none
SendOutcomes ==
    {[ok |-> TRUE, status |-> Some(200)],
     [ok |-> FALSE, status |-> Some(503)],
     [ok |-> FALSE, status |-> None]}

\* reqwest_to_hyper_response
reqwest_to_hyper_response(o) ==
    IF o.ok
    THEN Ok([status |-> Unwrap(o.status), body |-> "<upstream body>", location |-> None])
    ELSE IF IsSome(o.status)
    THEN HttpError(Unwrap(o.status), "<error message>")
    ELSE HttpError(500, "<error message>")

ProxyResponse(r) ==
    /\ UNCHANGED << header_vars, ws_vars, task_vars, holder_vars, compress_vars, compile_vars >>
    /\ pc[r] = "sent"
    /\ \E o \in SendOutcomes :
           /\ inner' = [inner EXCEPT ![r] = Some(reqwest_to_hyper_response(o))]
           /\ resp' = [resp EXCEPT ![r] =
                           Some(serve_request(reqwest_to_hyper_response(o)))]
    /\ pc' = [pc EXCEPT ![r] = "done"]
    /\ UNCHANGED << k8s_routes, gateway_routes, authly_client, req, snap, guard, stale,
                    result, fwd, auth, exchange_log, outbound >>

\* what endpoint.handle(req) may return: the health and services
\* endpoints answer a method other than GET with an error, the file
\* services always answer
LocalOutcomes(service) ==
    {Ok([status |-> 200, body |-> "<local>", location |-> None])}
        \cup (IF service \in {"Health", "Services"}
              THEN {HttpError(405, "method not allowed")} ELSE {})

\* endpoint.handle(req) returns
LocalResponse(r) ==
    /\ UNCHANGED << header_vars, ws_vars, task_vars, holder_vars, compress_vars, compile_vars >>
    /\ pc[r] = "local"
    /\ \E o \in LocalOutcomes(Unwrap(result[r]).service) :
           /\ inner' = [inner EXCEPT ![r] = Some(o)]
           /\ resp' = [resp EXCEPT ![r] = Some(serve_request(o))]
    /\ pc' = [pc EXCEPT ![r] = "done"]
    /\ UNCHANGED << k8s_routes, gateway_routes, authly_client, req, snap, guard, stale,
                    result, fwd, auth, exchange_log, outbound >>

\* the response is written and the task ends; the next request may come
Finish(r) ==
    /\ UNCHANGED << header_vars, ws_vars, task_vars, holder_vars, compress_vars, compile_vars >>
    /\ pc[r] = "done"
    /\ pc' = [pc EXCEPT ![r] = "idle"]
    /\ req' = [req EXCEPT ![r] = None]
    /\ result' = [result EXCEPT ![r] = None]
    /\ fwd' = [fwd EXCEPT ![r] = None]
    /\ auth' = [auth EXCEPT ![r] = "none"]
    /\ exchange_log' = [exchange_log EXCEPT ![r] = << >>]
    /\ outbound' = [outbound EXCEPT ![r] = None]
    /\ inner' = [inner EXCEPT ![r] = None]
    /\ resp' = [resp EXCEPT ![r] = None]
    /\ UNCHANGED << k8s_routes, gateway_routes, authly_client, snap, guard, stale >>

Next ==
    \/ \E obj \in HTTPRoutes : Apply(obj)
    \/ \E obj \in HTTPRoutes : Delete(obj)
    \/ \E r \in Requests : Load(r)
    \/ \E r \in Requests : MatchRoute(r)
    \/ \E r \in Requests : Dispatch(r)
    \/ \E r \in Requests : ExchangeReturn(r)
    \/ \E r \in Requests : ProxyResponse(r)
    \/ \E r \in Requests : LocalResponse(r)
    \/ \E r \in Requests : Finish(r)

Spec == Init /\ [][Next]_vars

\* ------------------------------------------------- forwarding header population
\* A request passes up to MaxHops proxies in a row. Each proxy rewrites the
\* path and populates the forwarding headers, either with set_proxy_headers
\* or with the inline code of match_route.
MaxHops == 2

HostHeaders ==
    {None, Some(<< "example.com" >>), Some(<< "example.com", ":", "8443" >>)}
UpstreamProto == {None, Some(<< "https" >>)}
UpstreamHost == {None, Some(<< "edge.example" >>)}
UpstreamPort == {None, Some(<< "444" >>)}
UpstreamPrefix == {None, Some(<< SLASH, "up" >>), Some(<< OPAQUE >>)}
OriginalSchemes == {None, Some("http")}
OriginalPath == << SLASH, "svc", SLASH, "api", SLASH, "x" >>

HopRequest(scheme, path, headers) ==
    [uri |-> MkUri(scheme, None, Some(path)), headers |-> headers]

FirstRequests ==
    {HopRequest(sc, OriginalPath,
                [host |-> h, x_forwarded_proto |-> p, x_forwarded_host |-> fh,
                 x_forwarded_port |-> fp, x_forwarded_prefix |-> pf]) :
        sc \in OriginalSchemes, h \in HostHeaders, p \in UpstreamProto,
        fh \in UpstreamHost, fp \in UpstreamPort, pf \in UpstreamPrefix}

\* the paths a proxy may rewrite `path` to: what is left after stripping a
\* prefix, or a path that is no suffix of it
RewrittenPaths(path) ==
    {SubSeq(path, i, Len(path)) : i \in {j \in 1..Len(path) : path[j] = SLASH}}
        \cup {<< SLASH, "z" >>}

\* the gateway state while only header population is looked at
GatewayIdle ==
    /\ k8s_routes = [n \in RouteNames |-> None]
    /\ gateway_routes = ArcOf(rebuild_routing_table(<< >>, << >>))
    /\ authly_client = None
    /\ pc = [r \in Requests |-> "idle"]
    /\ req = [r \in Requests |-> None]
    /\ snap = [r \in Requests |-> None]
    /\ guard = [r \in Requests |-> FALSE]
    /\ stale = [r \in Requests |-> FALSE]
    /\ result = [r \in Requests |-> None]
    /\ fwd = [r \in Requests |-> None]
    /\ auth = [r \in Requests |-> "none"]
    /\ exchange_log = [r \in Requests |-> << >>]
    /\ outbound = [r \in Requests |-> None]
    /\ inner = [r \in Requests |-> None]
    /\ resp = [r \in Requests |-> None]

HeaderInit ==
    /\ GatewayIdle
    /\ WsIdle
    /\ TasksIdle
    /\ HoldersIdle
    /\ CompressIdle
    /\ CompileIdle
    /\ first_req \in {Some(q) : q \in FirstRequests}
    /\ hop_req = Some([ok |-> TRUE, req |-> Unwrap(first_req)])
    /\ hops = << >>

\* a proxy that calls set_proxy_headers after rewriting the URI
SetProxyHeaders(rewritten) ==
    /\ Len(hops) < MaxHops
    /\ IsSome(hop_req) /\ Unwrap(hop_req).ok
    /\ LET original == Unwrap(hop_req).req
           out == set_proxy_headers(
                      [original EXCEPT !.uri = MkUri(None, None, Some(rewritten))],
                      original.uri)
       IN  /\ hop_req' = Some(out)
           /\ hops' = Append(hops, [by |-> "set_proxy_headers",
                                    prefix |-> StripSuffix(UriPath(original.uri), rewritten)])
    /\ UNCHANGED << first_req, watcher_vars, authly_client, request_vars, ws_vars,
                    task_vars, holder_vars, compress_vars, compile_vars >>

\* a proxy that populates the headers as match_route does
InsertForwarded(rewritten) ==
    /\ Len(hops) < MaxHops
    /\ IsSome(hop_req) /\ Unwrap(hop_req).ok
    /\ LET original == Unwrap(hop_req).req
           scheme == IF IsSome(original.uri.scheme)
                     THEN Some(<< Unwrap(original.uri.scheme) >>) ELSE None
           prefix == StripSuffix(UriPath(original.uri), rewritten)
           headers == insert_forwarded(original.headers, scheme, prefix)
       IN  /\ hop_req' = Some([ok |-> TRUE,
                               req |-> [uri |-> MkUri(None, None, Some(rewritten)),
                                        headers |-> headers]])
           /\ hops' = Append(hops, [by |-> "match_route", prefix |-> prefix])
    /\ UNCHANGED << first_req, watcher_vars, authly_client, request_vars, ws_vars,
                    task_vars, holder_vars, compress_vars, compile_vars >>

HeaderNext ==
    \/ \E rewritten \in RewrittenPaths(UriPath(Unwrap(hop_req).req.uri)) :
           SetProxyHeaders(rewritten)
    \/ \E rewritten \in RewrittenPaths(UriPath(Unwrap(hop_req).req.uri)) :
           InsertForwarded(rewritten)

HeaderSpec == HeaderInit /\ [][HeaderNext]_vars

\* ----------------------------------------------------------- reverse_proxy.rs

\* HttpError::bad_request, HttpError::bad_gateway; a message's backticks
\* are written as single quotes
bad_request(msg) == HttpError(400, msg)
bad_gateway(msg) == HttpError(502, msg)

\* the handshake headers of a request handed to reverse_proxy
UpgradeValues == {None, Some("websocket"), Some("WebSocket"), Some("h2c")}
VersionValues == {None, Some("13"), Some("8")}
KeyValues == {None, Some("k1"), Some("k2")}
ProtocolValues == {None, Some("graphql-ws")}

WsRequests ==
    [upgrade : UpgradeValues, version : VersionValues,
     key : KeyValues, protocol : ProtocolValues]

\* tungstenite::handshake::derive_accept_key: the digest and its encoding
\* are kept as terms over the bytes they are applied to
GUID == "258EAFA5-E914-47DA-95CA-C5AB0DC85B11"
Sha1(bytes) == [fn |-> "sha1", of |-> bytes]
Base64(bytes) == [fn |-> "base64", of |-> bytes]
derive_accept_key(request_key) == Base64(Sha1(<< request_key, GUID >>))

\* proxy_websocket before its first await: Sec-WebSocket-Version must be
\* 13 and Sec-WebSocket-Key present
proxy_websocket_checks(request) ==
    IF request.version # Some("13") THEN bad_request("invalid websocket version")
    ELSE IF ~IsSome(request.key) THEN bad_request("'Sec-Websocket-Key' header missing")
    ELSE [ok |-> TRUE, path |-> "websocket"]

\* a dispatcher that takes every request with an Upgrade header for a
\* websocket handshake
reverse_proxy_path_any_upgrade(request) ==
    IF ~IsSome(request.upgrade) THEN [ok |-> TRUE, path |-> "plain"]
    ELSE proxy_websocket_checks(request)

\* reverse_proxy before its first await: the match on the Upgrade header
reverse_proxy_path(request) ==
    IF ~IsSome(request.upgrade) THEN [ok |-> TRUE, path |-> "plain"]
    ELSE IF request.upgrade = Some("websocket") THEN proxy_websocket_checks(request)
    ELSE bad_request("unrecognized 'Upgrade' header")

\* what into_websocket() may yield
HandshakeOutcomes ==
    {"ok", "UnexpectedStatusCode", "Handshake", "Reqwest", "Tungstenite", "Other"}

\* the status of an upstream that refuses the upgrade
RefusedStatus == 403

\* a map_err that answers every failed handshake as a bad gateway
handshake_error_gateway(err) ==
    IF err = "Handshake" THEN bad_gateway("handshake failed")
    ELSE IF err = "Reqwest" THEN bad_gateway("unspecified request error")
    ELSE bad_gateway("protocol error")

\* the map_err of into_websocket()
handshake_error(err) ==
    IF err = "UnexpectedStatusCode" THEN HttpError(RefusedStatus, "upstream refused upgrade")
    ELSE IF err = "Handshake" THEN bad_gateway("handshake failed")
    ELSE IF err = "Reqwest" THEN bad_gateway("unspecified request error")
    ELSE bad_gateway("protocol error")

\* a 101 that leaves the subprotocol out
switching_protocols_bare(sec_websocket_key, sec_websocket_protocol) ==
    [status |-> 101, body |-> "", location |-> None,
     connection |-> Some("upgrade"), upgrade |-> Some("websocket"),
     sec_websocket_accept |-> Some(derive_accept_key(sec_websocket_key)),
     sec_websocket_key |-> Some(sec_websocket_key),
     sec_websocket_protocol |-> None]

\* the response proxy_websocket builds after the upstream handshake
switching_protocols(sec_websocket_key, sec_websocket_protocol) ==
    [status |-> 101, body |-> "", location |-> None,
     connection |-> Some("upgrade"), upgrade |-> Some("websocket"),
     sec_websocket_accept |-> Some(derive_accept_key(sec_websocket_key)),
     sec_websocket_key |-> Some(sec_websocket_key),
     sec_websocket_protocol |-> sec_websocket_protocol]

\* CloseCode::Normal
Normal == 1000

Payloads == {"a", "b"}
CloseFrames == {[code |-> 1000, reason |-> ""], [code |-> 1001, reason |-> "bye"]}

Msg(kind, payload, frame) == [kind |-> kind, payload |-> payload, frame |-> frame]

\* what front_socket.next() may yield: the stream's end, a message of
\* tungstenite (a close with or without a frame), or an error
FrontEvents ==
    {Msg("End", "", None), Msg("Err", "", None), Msg("Ping", "", None)}
        \cup {Msg("Text", p, None) : p \in Payloads}
        \cup {Msg("Binary", p, None) : p \in Payloads}
        \cup {Msg("Close", "", Some(f)) : f \in CloseFrames}
        \cup {Msg("Close", "", None)}

\* what back_socket.next() may yield: the stream's end, a message of
\* reqwest_websocket (its close always has code and reason), or an error
BackEvents ==
    {Msg("End", "", None), Msg("Err", "", None), Msg("Ping", "", None),
     Msg("Pong", "", None)}
        \cup {Msg("Text", p, None) : p \in Payloads}
        \cup {Msg("Binary", p, None) : p \in Payloads}
        \cup {Msg("Close", "", Some(f)) : f \in CloseFrames}

\* the arguments of a close call
CloseArgs(code, reason) == [code |-> code, reason |-> reason]

Turn(send, brk) == [send |-> send, brk |-> brk]

\* a loop that forwards text only from the client
front_turn_text_only(msg) ==
    IF msg.kind = "End" THEN Turn(None, Some(CloseArgs(Some(Normal), None)))
    ELSE IF msg.kind = "Text" THEN Turn(Some(Msg(msg.kind, msg.payload, None)), None)
    ELSE IF msg.kind = "Close" /\ IsSome(msg.frame)
    THEN Turn(None, Some(CloseArgs(Some(Unwrap(msg.frame).code),
                                   Some(Unwrap(msg.frame).reason))))
    ELSE IF msg.kind = "Close" THEN Turn(None, Some(CloseArgs(Some(Normal), None)))
    ELSE Turn(None, None)

\* ws_tunnel, the arm of front_socket.next(): what is sent to the backend
\* and the value the loop breaks with, if it does
front_turn(msg) ==
    IF msg.kind = "End" THEN Turn(None, Some(CloseArgs(Some(Normal), None)))
    ELSE IF msg.kind \in {"Text", "Binary"}
    THEN Turn(Some(Msg(msg.kind, msg.payload, None)), None)
    ELSE IF msg.kind = "Close" /\ IsSome(msg.frame)
    THEN Turn(None, Some(CloseArgs(Some(Unwrap(msg.frame).code),
                                   Some(Unwrap(msg.frame).reason))))
    ELSE IF msg.kind = "Close" THEN Turn(None, Some(CloseArgs(Some(Normal), None)))
    ELSE Turn(None, None)

\* a loop that a ping from the backend ends
back_turn_ping_ends(msg) ==
    IF msg.kind \in {"End", "Ping"} THEN Turn(None, Some(CloseArgs(Some(Normal), None)))
    ELSE IF msg.kind \in {"Text", "Binary"}
    THEN Turn(Some(Msg(msg.kind, msg.payload, None)), None)
    ELSE IF msg.kind = "Close" THEN Turn(None, Some(CloseArgs(Some(Normal), None)))
    ELSE Turn(None, None)

\* ws_tunnel, the arm of back_socket.next(): what is sent to the client
\* and the value the loop breaks with, if it does
back_turn(msg) ==
    IF msg.kind = "End" THEN Turn(None, Some(CloseArgs(Some(Normal), None)))
    ELSE IF msg.kind \in {"Text", "Binary"}
    THEN Turn(Some(Msg(msg.kind, msg.payload, None)), None)
    ELSE IF msg.kind = "Close" THEN Turn(None, Some(CloseArgs(Some(Normal), None)))
    ELSE Turn(None, None)

\* the messages one tunnel receives, both directions together
MaxMessages == 3

tunnel_vars == << tunnel_pc, front_recv, back_recv, front_sent, back_sent,
                 front_closes, back_closes, send_errs, tunnel_brk >>

\* what an awaited call on the outbound client yielded
ClientResult(op, ok, status, err) ==
    [op |-> op, ok |-> ok, status |-> status, err |-> err]
other_vars == << watcher_vars, authly_client, request_vars, header_vars,
                task_vars, holder_vars, compress_vars, compile_vars >>

WsInit ==
    /\ GatewayIdle
    /\ HeadersIdle
    /\ TasksIdle
    /\ HoldersIdle
    /\ CompressIdle
    /\ CompileIdle
    /\ ws_req \in {Some(q) : q \in WsRequests}
    /\ ws_pc = "start"
    /\ ws_outbound = << >>
    /\ ws_inner = None
    /\ ws_resp = None
    /\ ws_client = None
    /\ send_errs = {}
    /\ tunnel_pc = "none"
    /\ front_recv = << >>
    /\ back_recv = << >>
    /\ front_sent = << >>
    /\ back_sent = << >>
    /\ front_closes = << >>
    /\ back_closes = << >>
    /\ tunnel_brk = None

\* reverse_proxy returns result
WsReturn(result_value) ==
    /\ ws_inner' = Some(result_value)
    /\ ws_resp' = Some(serve_request(result_value))
    /\ ws_pc' = "done"

\* reverse_proxy (and proxy_websocket) up to the first await: an error, or
\* the request to the backend is issued
ReverseProxy ==
    /\ ws_pc = "start"
    /\ LET request == Unwrap(ws_req)
           p == reverse_proxy_path(request)
       IN  IF ~p.ok
           THEN /\ WsReturn(p)
                /\ UNCHANGED ws_outbound
           ELSE /\ ws_outbound' = Append(ws_outbound,
                                         [kind |-> p.path, headers |-> request])
                /\ ws_pc' = IF p.path = "plain" THEN "plain_sent" ELSE "upgrade_sent"
                /\ UNCHANGED << ws_inner, ws_resp >>
    /\ UNCHANGED << ws_req, ws_client, tunnel_vars, other_vars >>

\* the plain proxy request returns
PlainReturn ==
    /\ ws_pc = "plain_sent"
    /\ \E o \in SendOutcomes :
           /\ ws_client' = Some(ClientResult("send", o.ok, o.status, "<error message>"))
           /\ WsReturn(reqwest_to_hyper_response(o))
    /\ UNCHANGED << ws_req, ws_outbound, tunnel_vars, other_vars >>

\* client.get(..).upgrade().send() returns
UpgradeSendReturn ==
    /\ ws_pc = "upgrade_sent"
    /\ \E sent \in BOOLEAN :
           /\ ws_client' = Some(ClientResult("upgrade_send", sent, None, "send"))
           /\ IF sent
              THEN /\ ws_pc' = "handshake"
                   /\ UNCHANGED << ws_inner, ws_resp >>
              ELSE WsReturn(bad_gateway("bad gateway"))
    /\ UNCHANGED << ws_req, ws_outbound, tunnel_vars, other_vars >>

\* a proxy_websocket that answers 101 and spawns the tunnel before it has
\* looked at what into_websocket() gave
IntoWebsocketEager ==
    /\ ws_pc = "handshake"
    /\ \E o \in HandshakeOutcomes :
           ws_client' = Some(ClientResult("into_websocket", o = "ok",
                                 IF o = "UnexpectedStatusCode" THEN Some(RefusedStatus)
                                 ELSE None, o))
    /\ tunnel_pc' = "upgrading"
    /\ WsReturn(Ok(switching_protocols(Unwrap(Unwrap(ws_req).key),
                                       Unwrap(ws_req).protocol)))
    /\ UNCHANGED << ws_req, ws_outbound, front_recv, back_recv, front_sent, back_sent,
                    front_closes, back_closes, send_errs, tunnel_brk, other_vars >>

\* into_websocket() returns; with a back socket the tunnel task is spawned
\* and the 101 is returned
IntoWebsocket ==
    /\ ws_pc = "handshake"
    /\ \E o \in HandshakeOutcomes :
           /\ ws_client' = Some(ClientResult("into_websocket", o = "ok",
                                  IF o = "UnexpectedStatusCode" THEN Some(RefusedStatus)
                                  ELSE None, o))
           /\ IF o = "ok"
              THEN /\ tunnel_pc' = "upgrading"
                   /\ WsReturn(Ok(switching_protocols(Unwrap(Unwrap(ws_req).key),
                                                      Unwrap(ws_req).protocol)))
              ELSE /\ WsReturn(handshake_error(o))
                   /\ UNCHANGED tunnel_pc
    /\ UNCHANGED << ws_req, ws_outbound, front_recv, back_recv, front_sent, back_sent,
                    front_closes, back_closes, send_errs, tunnel_brk, other_vars >>

\* the tunnel task: hyper::upgrade::on returns, after the 101 was written
UpgradeOn ==
    /\ tunnel_pc = "upgrading" /\ ws_pc = "done"
    /\ \E upgraded \in BOOLEAN :
           tunnel_pc' = IF upgraded THEN "running" ELSE "failed"
    /\ UNCHANGED << ws_req, ws_pc, ws_outbound, ws_inner, ws_resp, ws_client,
                    front_recv, back_recv, front_sent, back_sent, front_closes,
                    back_closes, send_errs, tunnel_brk, other_vars >>

\* the loop has broken with brk: the task goes on to close both sockets
AfterLoop(brk) ==
    IF IsSome(brk)
    THEN /\ tunnel_brk' = brk
         /\ tunnel_pc' = "closing_front"
    ELSE UNCHANGED << tunnel_pc, tunnel_brk >>

\* ws_tunnel: front_socket.next() is selected
FrontNext(msg) ==
    /\ tunnel_pc = "running"
    /\ Len(front_recv) + Len(back_recv) < MaxMessages
    /\ front_recv' = Append(front_recv, msg)
    /\ LET t == front_turn(msg)
       IN  /\ IF IsSome(t.send)
              THEN /\ back_sent' = Append(back_sent, Unwrap(t.send))
                   /\ \E sent \in BOOLEAN :
                          send_errs' = IF sent THEN send_errs
                                       ELSE send_errs \cup {<< "back", Len(back_sent) + 1 >>}
              ELSE UNCHANGED << back_sent, send_errs >>
           /\ AfterLoop(t.brk)
    /\ UNCHANGED << ws_req, ws_pc, ws_outbound, ws_inner, ws_resp, ws_client, back_recv,
                    front_sent, front_closes, back_closes, other_vars >>

\* ws_tunnel: back_socket.next() is selected
BackNext(msg) ==
    /\ tunnel_pc = "running"
    /\ Len(front_recv) + Len(back_recv) < MaxMessages
    /\ back_recv' = Append(back_recv, msg)
    /\ LET t == back_turn(msg)
       IN  /\ IF IsSome(t.send)
              THEN /\ front_sent' = Append(front_sent, Unwrap(t.send))
                   /\ \E sent \in BOOLEAN :
                          send_errs' = IF sent THEN send_errs
                                       ELSE send_errs \cup {<< "front", Len(front_sent) + 1 >>}
              ELSE UNCHANGED << front_sent, send_errs >>
           /\ AfterLoop(t.brk)
    /\ UNCHANGED << ws_req, ws_pc, ws_outbound, ws_inner, ws_resp, ws_client, front_recv,
                    back_sent, front_closes, back_closes, other_vars >>

\* let _ = front_socket.close(None).await: the call returns, its result
\* is dropped
CloseFront ==
    /\ tunnel_pc = "closing_front"
    /\ front_closes' = Append(front_closes, CloseArgs(None, None))
    /\ tunnel_pc' = "closing_back"
    /\ UNCHANGED << ws_req, ws_pc, ws_outbound, ws_inner, ws_resp, ws_client, front_recv,
                    back_recv, front_sent, back_sent, back_closes, send_errs,
                    tunnel_brk, other_vars >>

\* a tunnel task that ends without closing the back socket
CloseBackSkipped ==
    /\ tunnel_pc = "closing_back"
    /\ tunnel_pc' = "exited"
    /\ UNCHANGED << ws_req, ws_pc, ws_outbound, ws_inner, ws_resp, ws_client, front_recv,
                    back_recv, front_sent, back_sent, front_closes, back_closes,
                    send_errs, tunnel_brk, other_vars >>

\* let _ = back_socket.close(code, message).await, then the task ends
CloseBack ==
    /\ tunnel_pc = "closing_back"
    /\ back_closes' = Append(back_closes, Unwrap(tunnel_brk))
    /\ tunnel_pc' = "exited"
    /\ UNCHANGED << ws_req, ws_pc, ws_outbound, ws_inner, ws_resp, ws_client, front_recv,
                    back_recv, front_sent, back_sent, front_closes, send_errs,
                    tunnel_brk, other_vars >>

WsNext ==
    \/ ReverseProxy
    \/ PlainReturn
    \/ UpgradeSendReturn
    \/ IntoWebsocket
    \/ UpgradeOn
    \/ \E msg \in FrontEvents : FrontNext(msg)
    \/ \E msg \in BackEvents : BackNext(msg)
    \/ CloseFront
    \/ CloseBack

WsSpec == WsInit /\ [][WsNext]_vars

\* the two close calls are awaited sends of one frame each: the task goes
\* on when the call returns, whatever it returns
WsFairSpec == WsSpec /\ WF_vars(CloseFront) /\ WF_vars(CloseBack)

\* ------------------------------------------------ layers/http_compression.rs

DigitSymbols == << "0", "1", "2", "3", "4", "5", "6", "7", "8", "9" >>

IsDigit(c) == \E i \in 1..Len(DigitSymbols) : DigitSymbols[i] = c

DigitValue(c) == (CHOOSE i \in 1..Len(DigitSymbols) : DigitSymbols[i] = c) - 1

RECURSIVE DecimalValue(_)
DecimalValue(str) ==
    IF str = << >> THEN 0
    ELSE 10 * DecimalValue(SubSeq(str, 1, Len(str) - 1)) + DigitValue(str[Len(str)])

\* str::parse::<u64>: an option of the number (the inputs stay far below
\* the width of u64)
ParseU64(str) ==
    IF str # << >> /\ \A i \in 1..Len(str) : IsDigit(str[i])
    THEN Some(DecimalValue(str))
    ELSE None

\* h.to_str().ok() of an option of a header value
HeaderText(header) ==
    IF IsSome(header) THEN ToStr(Unwrap(header)) ELSE None

IMAGE == << "image", "/" >>
SVG == << "image", "/", "svg+xml" >>

\* a predicate that compresses only above the minimum size
should_compress_above(cfg, response) ==
    LET response_content_type ==
            IF IsSome(HeaderText(response.content_type))
            THEN Unwrap(HeaderText(response.content_type)) ELSE << >>
        from_header ==
            IF IsSome(HeaderText(response.content_length))
            THEN ParseU64(Unwrap(HeaderText(response.content_length))) ELSE None
        response_content_size ==
            IF IsSome(response.size_hint) THEN response.size_hint ELSE from_header
    IN  IF \E i \in 1..Len(cfg.exempt_content_types) :
               cfg.exempt_content_types[i] = response_content_type
        THEN FALSE
        ELSE IF /\ response_content_type # SVG
                /\ IsPrefixOf(IMAGE, response_content_type)
                /\ ~cfg.compress_images
        THEN FALSE
        ELSE IF IsSome(response_content_size)
                   /\ Unwrap(response_content_size) <= cfg.min_size
        THEN FALSE
        ELSE TRUE

\* CompressionPredicate::should_compress
should_compress(cfg, response) ==
    LET response_content_type ==
            IF IsSome(HeaderText(response.content_type))
            THEN Unwrap(HeaderText(response.content_type)) ELSE << >>
        from_header ==
            IF IsSome(HeaderText(response.content_length))
            THEN ParseU64(Unwrap(HeaderText(response.content_length))) ELSE None
        response_content_size ==
            IF IsSome(response.size_hint) THEN response.size_hint ELSE from_header
    IN  IF \E i \in 1..Len(cfg.exempt_content_types) :
               cfg.exempt_content_types[i] = response_content_type
        THEN FALSE
        ELSE IF /\ response_content_type # SVG
                /\ IsPrefixOf(IMAGE, response_content_type)
                /\ ~cfg.compress_images
        THEN FALSE
        ELSE IF IsSome(response_content_size)
                   /\ Unwrap(response_content_size) < cfg.min_size
        THEN FALSE
        ELSE TRUE

\* the configurations and responses judged
ExemptLists ==
    {<< >>, << << "audio", "/", "mpeg" >>, << "video", "/", "mp4" >> >>,
     << << "image", "/", "svg+xml" >> >>}
MinSizes == {0, 3, 32}
ContentTypes ==
    {None, Some(<< "text", "/", "html" >>), Some(<< "audio", "/", "mpeg" >>),
     Some(<< "image", "/", "jpeg" >>), Some(SVG),
     Some(<< "image", "/", "svg+xml", ";", "charset=utf-8" >>),
     Some(<< "image" >>), Some(<< OPAQUE >>)}
SizeHints == {None, Some(2), Some(3), Some(40)}
ContentLengths ==
    {None, Some(<< "2" >>), Some(<< "3" >>), Some(<< "4", "0" >>), Some(<< "x" >>),
     Some(<< OPAQUE >>)}

CompressConfigs ==
    [exempt_content_types : ExemptLists, compress_images : BOOLEAN, min_size : MinSizes]
CompressResponses ==
    [content_type : ContentTypes, size_hint : SizeHints, content_length : ContentLengths]

CompressInit ==
    /\ GatewayIdle
    /\ HeadersIdle
    /\ WsIdle
    /\ TasksIdle
    /\ HoldersIdle
    /\ CompileIdle
    /\ cmp_cfg \in {Some(c) : c \in CompressConfigs}
    /\ cmp_resp \in {Some(r) : r \in CompressResponses}
    /\ cmp_decision = None

\* the compression layer asks the predicate about the response
ShouldCompress ==
    /\ cmp_decision = None
    /\ cmp_decision' = Some(should_compress(Unwrap(cmp_cfg), Unwrap(cmp_resp)))
    /\ UNCHANGED << cmp_cfg, cmp_resp, watcher_vars, authly_client, request_vars,
                    header_vars, ws_vars, task_vars, holder_vars, compile_vars >>

CompressNext == ShouldCompress

CompressSpec == CompressInit /\ [][CompressNext]_vars

\* ---------------------------------------------- k8s/k8s_util.rs api_watcher

\* the objects InitApply may buffer before InitDone
MaxInitial == 2

\* HttpRouteWatcher::apply over a batch: the objects are filtered and
\* inserted in order
RECURSIVE ApplyAllToMap(_, _)
ApplyAllToMap(k8s, objs) ==
    IF objs = << >> THEN k8s
    ELSE ApplyAllToMap(ApplyToMap(k8s, Head(objs)), Tail(objs))

\* history: the version each applied object carried, the last one winning
RECURSIVE NoteApplied(_, _)
NoteApplied(last, objs) ==
    IF objs = << >> THEN last
    ELSE NoteApplied([last EXCEPT ![Head(objs).name] = Some(Head(objs))], Tail(objs))

WatchInit ==
    /\ GatewayIdle
    /\ HeadersIdle
    /\ WsIdle
    /\ HoldersIdle
    /\ CompressIdle
    /\ CompileIdle
    /\ cancelled = FALSE
    /\ watcher_pc = "running"
    /\ initial = << >>
    /\ last_applied = [n \in RouteNames |-> None]

\* what the watcher events leave alone
watch_frame == << authly_client, pc, req, snap, guard, result, fwd, auth,
                 exchange_log, outbound, inner, resp, header_vars, ws_vars,
                 holder_vars, compress_vars, compile_vars, cancelled, watcher_pc >>

\* Ok(Event::Apply(obj)): callbacks.apply(vec![obj])
WatchApply(obj) ==
    /\ watcher_pc = "running"
    /\ k8s_routes' = ApplyAllToMap(k8s_routes, << obj >>)
    /\ Publish(k8s_routes')
    /\ last_applied' = NoteApplied(last_applied, << obj >>)
    /\ UNCHANGED << initial, watch_frame >>

\* Ok(Event::Delete(obj)): callbacks.delete(vec![obj]); the resource is gone
WatchDelete(obj) ==
    /\ watcher_pc = "running"
    /\ k8s_routes' = DeleteFromMap(k8s_routes, obj)
    /\ Publish(k8s_routes')
    /\ last_applied' = [last_applied EXCEPT ![obj.name] = None]
    /\ UNCHANGED << initial, watch_frame >>

\* Ok(Event::Init): the buffer is reset
WatchEventInit ==
    /\ watcher_pc = "running"
    /\ initial' = << >>
    /\ UNCHANGED << watcher_vars, stale, last_applied, watch_frame >>

\* Ok(Event::InitApply(obj)): the object is buffered
WatchInitApply(obj) ==
    /\ watcher_pc = "running"
    /\ Len(initial) < MaxInitial
    /\ initial' = Append(initial, obj)
    /\ UNCHANGED << watcher_vars, stale, last_applied, watch_frame >>

\* Ok(Event::InitDone): callbacks.apply(initial), the buffer is reset
WatchInitDone ==
    /\ watcher_pc = "running"
    /\ k8s_routes' = ApplyAllToMap(k8s_routes, initial)
    /\ Publish(k8s_routes')
    /\ last_applied' = NoteApplied(last_applied, initial)
    /\ initial' = << >>
    /\ UNCHANGED watch_frame

WatchNext ==
    \/ \E obj \in HTTPRoutes : WatchApply(obj)
    \/ \E obj \in HTTPRoutes : WatchDelete(obj)
    \/ WatchEventInit
    \/ \E obj \in HTTPRoutes : WatchInitApply(obj)
    \/ WatchInitDone

WatchSpec == WatchInit /\ [][WatchNext]_vars

\* ------------------------------------------------------------ http_client.rs

\* the holders of GatewayState.backends
Holders == {"default", "authly"}

\* the builders a stream yields after the initial one
MaxBuilders == 2

\* a reqwest::ClientBuilder: its position in the stream and whether
\* builder.build() succeeds
Builders == [id : 0..MaxBuilders, builds : BOOLEAN]

\* the builder create_with_builder_stream takes first; the holder exists
\* only when it built
InitialBuilder == [id |-> 0, builds |-> TRUE]

\* what is left of a builder stream after the initial builder: the builders
\* it still yields, and whether it ends after them or stays pending
BuilderStreams ==
    UNION {{[items |-> q, ends |-> e] :
                q \in {b \in [1..n -> Builders] : \A i \in 1..n : b[i].id = i},
                e \in BOOLEAN} : n \in 0..MaxBuilders}

\* build_instance: both clients of the instance come from the one builder;
\* None is the Err of builder.build()
build_instance(builder) ==
    IF builder.builds
    THEN Some([reqwest_client |-> builder.id, middleware_client |-> builder.id])
    ELSE None

\* a store that writes the new instance into the allocation readers hold
store_in_place(built, cur, instance) ==
    [built |-> [built EXCEPT ![cur] = instance], instance |-> cur]

\* client.instance.store(Arc::new(instance)): a new allocation becomes the
\* content of the ArcSwap; built is the sequence of allocations made
store(built, cur, instance) ==
    [built |-> Append(built, instance), instance |-> Len(built) + 1]

\* a holder that falls back to its first instance when a build fails
rebuild_reset(built, cur, builder) ==
    IF IsSome(build_instance(builder))
    THEN store(built, cur, Unwrap(build_instance(builder)))
    ELSE [built |-> built, instance |-> 1]

\* the Some(builder) arm of the holder task: Ok is stored, Err is logged
rebuild(built, cur, builder) ==
    IF IsSome(build_instance(builder))
    THEN store(built, cur, Unwrap(build_instance(builder)))
    ELSE [built |-> built, instance |-> cur]

\* current_instance: load_full, an Arc of the current allocation
current_instance(h) == [holder |-> h, arc |-> holder_instance[h]]

\* the instance behind an Arc
Deref(a) == holder_built[a.holder][a.arc]

\* create_with_builder_stream up to the spawn, for every holder
HoldersCreated ==
    /\ holder_pc = [h \in Holders |-> "running"]
    /\ holder_stream \in [Holders -> BuilderStreams]
    /\ holder_built = [h \in Holders |-> << Unwrap(build_instance(InitialBuilder)) >>]
    /\ holder_instance = [h \in Holders |-> 1]
    /\ reader_pc = "idle"
    /\ reader_held = None
    /\ reader_sent = << >>

\* what the holder tasks and their readers leave alone
holder_frame == << watcher_vars, authly_client, request_vars, header_vars, ws_vars,
                  compress_vars, compile_vars, watcher_pc, initial, last_applied >>

\* the holder task takes Some(builder) from its stream
HolderRebuild(h) ==
    /\ holder_pc[h] = "running"
    /\ holder_stream[h].items # << >>
    /\ LET r == rebuild(holder_built[h], holder_instance[h], Head(holder_stream[h].items))
       IN  /\ holder_built' = [holder_built EXCEPT ![h] = r.built]
           /\ holder_instance' = [holder_instance EXCEPT ![h] = r.instance]
    /\ holder_stream' = [holder_stream EXCEPT ![h].items = Tail(@)]
    /\ UNCHANGED << holder_pc, reader_pc, reader_held, reader_sent, cancelled,
                    holder_frame >>

\* the holder task takes None from its stream: no more builders
HolderStreamEnd(h) ==
    /\ holder_pc[h] = "running"
    /\ holder_stream[h].items = << >>
    /\ holder_stream[h].ends
    /\ holder_pc' = [holder_pc EXCEPT ![h] = "exited"]
    /\ UNCHANGED << holder_stream, holder_instance, holder_built, reader_pc,
                    reader_held, reader_sent, cancelled, holder_frame >>

\* the cancel.cancelled() arm of the holder task
HolderCancelled(h) ==
    /\ holder_pc[h] = "running"
    /\ cancelled
    /\ holder_pc' = [holder_pc EXCEPT ![h] = "exited"]
    /\ UNCHANGED << holder_stream, holder_instance, holder_built, reader_pc,
                    reader_held, reader_sent, cancelled, holder_frame >>

\* termination_signal: the token fires
Cancel ==
    /\ ~cancelled
    /\ cancelled' = TRUE
    /\ UNCHANGED << holder_vars, holder_frame >>

\* match_route on a proxy route: the holder is selected and its current
\* instance is taken into the match
ReaderSnapshot(h) ==
    /\ reader_pc = "idle"
    /\ reader_held' = Some([arc |-> current_instance(h),
                            seen |-> Deref(current_instance(h))])
    /\ reader_sent' = << >>
    /\ reader_pc' = "matched"
    /\ UNCHANGED << holder_pc, holder_stream, holder_instance, holder_built,
                    cancelled, holder_frame >>

\* reverse_proxy sends the request with the instance of the match
ReaderSend ==
    /\ reader_pc = "matched"
    /\ reader_sent' = Append(reader_sent, Deref(Unwrap(reader_held).arc))
    /\ reader_pc' = "sent"
    /\ UNCHANGED << holder_pc, holder_stream, holder_instance, holder_built,
                    reader_held, cancelled, holder_frame >>

\* the response body is streamed over the connection of that instance
ReaderStream ==
    /\ reader_pc = "sent"
    /\ reader_sent' = Append(reader_sent, Deref(Unwrap(reader_held).arc))
    /\ reader_pc' = "streamed"
    /\ UNCHANGED << holder_pc, holder_stream, holder_instance, holder_built,
                    reader_held, cancelled, holder_frame >>

\* the request is done, its Arc is dropped; the task serves the next one
ReaderDone ==
    /\ reader_pc = "streamed"
    /\ reader_held' = None
    /\ reader_sent' = << >>
    /\ reader_pc' = "idle"
    /\ UNCHANGED << holder_pc, holder_stream, holder_instance, holder_built,
                    cancelled, holder_frame >>

HolderInit ==
    /\ GatewayIdle
    /\ HeadersIdle
    /\ WsIdle
    /\ TasksIdle
    /\ CompressIdle
    /\ CompileIdle
    /\ HoldersCreated

HolderSpecNext ==
    \/ \E h \in Holders : HolderRebuild(h)
    \/ \E h \in Holders : HolderStreamEnd(h)
    \/ \E h \in Holders : HolderCancelled(h)
    \/ Cancel
    \/ \E h \in Holders : ReaderSnapshot(h)
    \/ ReaderSend
    \/ ReaderStream
    \/ ReaderDone

HolderSpec == HolderInit /\ [][HolderSpecNext]_vars

\* ------------------------------------------------------------------ shutdown

\* the route resources the watcher sees while the tasks are shut down
ShutdownRoutes == {[name |-> "n1", kind |-> "svc"]}

\* a watcher that ignores the token
WatcherCancelledNever ==
    /\ FALSE
    /\ UNCHANGED vars

\* the cancel.cancelled() arm of api_watcher
WatcherCancelled ==
    /\ watcher_pc = "running"
    /\ cancelled
    /\ watcher_pc' = "exited"
    /\ UNCHANGED << watcher_vars, authly_client, request_vars, header_vars, ws_vars,
                    compress_vars, compile_vars, holder_vars, cancelled, initial, last_applied >>

\* api_watcher takes None from the watch stream
WatcherStreamEnd ==
    /\ watcher_pc = "running"
    /\ watcher_pc' = "exited"
    /\ UNCHANGED << watcher_vars, authly_client, request_vars, header_vars, ws_vars,
                    compress_vars, compile_vars, holder_vars, cancelled, initial, last_applied >>

ShutdownInit ==
    /\ GatewayIdle
    /\ HeadersIdle
    /\ WsIdle
    /\ CompressIdle
    /\ CompileIdle
    /\ HoldersCreated
    /\ cancelled = FALSE
    /\ watcher_pc = "running"
    /\ initial = << >>
    /\ last_applied = [n \in RouteNames |-> None]

ShutdownNext ==
    \/ \E obj \in ShutdownRoutes : WatchApply(obj)
    \/ \E obj \in ShutdownRoutes : WatchDelete(obj)
    \/ WatcherCancelled
    \/ WatcherStreamEnd
    \/ \E h \in Holders : HolderRebuild(h)
    \/ \E h \in Holders : HolderStreamEnd(h)
    \/ \E h \in Holders : HolderCancelled(h)
    \/ Cancel

\* tokio::select! polls cancel.cancelled() on every turn of both loops and
\* polls the stream whenever it is ready: an arm that stays ready is taken
ShutdownSpec ==
    /\ ShutdownInit
    /\ [][ShutdownNext]_vars
    /\ WF_vars(WatcherCancelled)
    /\ \A h \in Holders :
           /\ WF_vars(HolderCancelled(h))
           /\ WF_vars(HolderStreamEnd(h))
           /\ WF_vars(HolderRebuild(h))

\* ------------------------------------------- k8s_routing.rs, one resource

\* the filters a rule may carry
MaxFilters == 2

OtherGroupFilter(name) ==
    [url_rewrite |-> None,
     extension_ref |-> Some([group |-> "example.com", name |-> name])]

RuleFilterKinds ==
    {ExtFilter(n) : n \in {"authn", "authn-mandatory", "authn-opportunistic",
                           "authn-disabled", "mesh"}}
        \cup {OtherGroupFilter("authn")}
        \cup {RewriteFilter(<< SLASH, "r" >>), RewriteFilter(<< SLASH, "r", SLASH >>)}

RuleFilters ==
    {None} \cup UNION {{Some(q) : q \in [1..n -> RuleFilterKinds]} : n \in 0..MaxFilters}

\* path values: unterminated, terminated, doubly terminated, unparsable
RuleValues ==
    {<< SLASH, "a" >>, << SLASH, "a", SLASH >>, << SLASH, "b", SLASH, SLASH >>,
     << SLASH, BAD >>}

RuleMatches ==
    {PathMatch(t, v) :
         t \in {None, Some(PathPrefix), Some(Exact), Some(RegularExpression)},
         v \in RuleValues}
        \cup {[path |-> None], [path |-> Some([type |-> Some(PathPrefix), value |-> None])]}

\* backend refs: with and without port, with the mesh extension, with
\* another extension, with an extension of another group
FirstBackendRefs ==
    {[name |-> n, port |-> p, filters |-> f] :
         n \in {"svc", AUTHLY_HOST, BAD},
         p \in {None, Some(80), Some(MeshPort)},
         f \in {None, Some(<< ExtFilter("mesh") >>), Some(<< ExtFilter("authn") >>),
                Some(<< OtherGroupFilter("mesh") >>)}}

SecondBackendRef ==
    [name |-> "second", port |-> Some(MeshPort), filters |-> Some(<< ExtFilter("mesh") >>)]

RuleBackends ==
    {None, Some(<< >>)}
        \cup {Some(<< b >>) : b \in FirstBackendRefs}
        \cup {Some(<< b, SecondBackendRef >>) : b \in FirstBackendRefs}

\* rules for resources of two rules, and matches for rules of two matches
SmallRules ==
    {[matches |-> Some(<< PathMatch(Some(t), v) >>), filters |-> f,
      backend_refs |-> Some(<< BackendRef(n, 80) >>)] :
         t \in {PathPrefix, Exact},
         v \in {<< SLASH, "a" >>, << SLASH, "b", SLASH, SLASH >>},
         f \in {None, Some(<< ExtFilter("authn") >>),
                Some(<< ExtFilter("authn-opportunistic"),
                        RewriteFilter(<< SLASH, "r" >>) >>)},
         n \in {"svc", BAD}}

SmallMatches ==
    {PathMatch(Some(t), v) :
         t \in {PathPrefix, Exact}, v \in {<< SLASH, "a" >>, << SLASH, BAD >>}}

\* the rule lists of the resources compiled
CompileInputs ==
    {<< [matches |-> Some(<< m >>), filters |-> f,
         backend_refs |-> Some(<< BackendRef("svc", 80) >>)] >> :
         m \in RuleMatches, f \in RuleFilters}
        \cup {<< [matches |-> ms, filters |-> None, backend_refs |-> b] >> :
                  ms \in {None, Some(<< PathMatch(None, << SLASH, "a" >>) >>),
                          Some(<< PathMatch(Some(Exact), << SLASH, "a" >>) >>)},
                  b \in RuleBackends}
        \cup {<< r1, r2 >> : r1 \in SmallRules, r2 \in SmallRules}
        \cup {<< [matches |-> Some(<< m1, m2 >>), filters |-> None,
                  backend_refs |-> Some(<< BackendRef("svc", 80) >>)] >> :
                  m1 \in SmallMatches, m2 \in SmallMatches}

\* the paths requested on a compiled table
CompilePaths ==
    {<< SLASH >>, << SLASH, "a" >>, << SLASH, "a", SLASH >>,
     << SLASH, "a", SLASH, "b" >>, << SLASH, "a", SLASH, "b", SLASH >>,
     << SLASH, "b" >>, << SLASH, "b", SLASH >>, << SLASH, "b", SLASH, SLASH >>,
     << SLASH, "b", SLASH, SLASH, "a" >>, << SLASH, "a", SLASH, "?" >>}

\* the resource whose rules are rc_input
CompiledResource ==
    [name |-> Some("n1"), spec |-> RouteSpec(<< GATEWAY_NAME >>, Unwrap(rc_input))]

CompileInit ==
    /\ GatewayIdle
    /\ HeadersIdle
    /\ WsIdle
    /\ TasksIdle
    /\ HoldersIdle
    /\ CompressIdle
    /\ rc_input \in {Some(rules) : rules \in CompileInputs}
    /\ rc_pc = "start"
    /\ rc_table = None
    /\ rc_match = None

compile_frame == << watcher_vars, authly_client, request_vars, header_vars, ws_vars,
                   task_vars, holder_vars, compress_vars >>

\* rebuild_routing_table with the resource as the only entry of the map
Compile ==
    /\ rc_pc = "start"
    /\ rc_table' = Some(try_add_http_route(static_routes, CompiledResource))
    /\ rc_pc' = "once"
    /\ UNCHANGED << rc_input, rc_match, compile_frame >>

\* a second resource of the same content is added to the table
CompileAgain ==
    /\ rc_pc = "once"
    /\ rc_table' = Some(try_add_http_route(Unwrap(rc_table).output, CompiledResource))
    /\ rc_pc' = "twice"
    /\ UNCHANGED << rc_input, rc_match, compile_frame >>

\* a request for path is matched on the compiled table
CompileMatch(path) ==
    /\ rc_pc = "once"
    /\ rc_match' = Some([path |-> path,
                         at |-> RouterAt(Unwrap(rc_table).output, path),
                         route |-> match_route(Unwrap(rc_table).output,
                                       InboundRequest(path, None, << >>, None))])
    /\ rc_pc' = "matched"
    /\ UNCHANGED << rc_input, rc_table, compile_frame >>

CompileNext ==
    \/ Compile
    \/ CompileAgain
    \/ \E path \in CompilePaths : CompileMatch(path)

CompileSpec == CompileInit /\ [][CompileNext]_vars

\* ------------------------------------------------------------------- claims

\* the request path and the table a request matched on
ReqPath(r) == UriPath(Unwrap(req[r]).uri)
Matched(r) == Unwrap(result[r])
IsProxyMatch(r) == IsSome(result[r]) /\ Matched(r).ok /\ Matched(r).tag = "Proxy"
Dispatched(r) == pc[r] \in {"exchange", "sent", "local", "done"}

\* C1: a request matches and is dispatched on the one table it loaded: what
\* match_route returns is the match in the loaded table, also when a newer
\* table has been published since (and no longer has the route); a request
\* that loaded after the latest publish holds the current table; and the
\* response or outbound request is the one of the matched route.
C1_SnapshotConsistent ==
    \A r \in Requests :
        /\ pc[r] = "matched" =>
               result[r] = Some(match_route(Table(Unwrap(snap[r])), Unwrap(req[r])))
        /\ (pc[r] \in {"loaded", "matched"} /\ ~stale[r]) =>
               snap[r] = Some(gateway_routes)
        /\ Dispatched(r) =>
               /\ ~Matched(r).ok =>
                      resp[r] = Some(into_hyper_response(Matched(r)))
               /\ (Matched(r).ok /\ Matched(r).tag = "TemporaryRedirect") =>
                      resp[r] = Some(RedirectResponse(Matched(r).uri))
               /\ (IsProxyMatch(r) /\ IsSome(outbound[r])) =>
                      /\ Unwrap(outbound[r]).request.uri = Matched(r).req.uri
                      /\ Unwrap(outbound[r]).client = Matched(r).http_client
               /\ ~IsProxyMatch(r) => ~IsSome(outbound[r])

\* a request matched a route of the table it loaded while the table
\* published since has no route for its path
C1_Witness ==
    \E r \in Requests :
        /\ pc[r] = "matched" /\ stale[r]
        /\ IsProxyMatch(r)
        /\ ~RouterAt(Table(gateway_routes), ReqPath(r)).ok

\* the catch-all patterns of a table that match path: a proper prefix
CatchAllsFor(table, path) ==
    {p \in Patterns(table) :
        IsCatchAll(p) /\ IsPrefixOf(Literal(p), path) /\ Len(Literal(p)) < Len(path)}

LongestOf(pats) == CHOOSE p \in pats : \A q \in pats : Len(q) <= Len(p)

\* C2: on the table a request loaded, the exact entry for its path is
\* selected when there is one; otherwise the catch-all entry with the
\* longest matching prefix, capturing the rest of the path; otherwise the
\* match fails (404).
C2_RouteSelection ==
    \A r \in Requests :
        pc[r] = "matched" =>
            LET T == Table(Unwrap(snap[r]))
                P == ReqPath(r)
                m == RouterAt(T, P)
                C == CatchAllsFor(T, P)
            IN  IF P \in Patterns(T)
                THEN m = MatchOk(ValueOf(T, P), None)
                ELSE IF C # {}
                THEN m = MatchOk(ValueOf(T, LongestOf(C)),
                                 Some(SubSeq(P, Len(LongestOf(C)), Len(P))))
                ELSE /\ ~m.ok
                     /\ Matched(r) = HttpError(404, "Not found")

\* a request whose path has an exact entry and is also under two catch-alls
C2_Witness ==
    \E r \in Requests :
        /\ pc[r] = "matched"
        /\ ReqPath(r) \in Patterns(Table(Unwrap(snap[r])))
        /\ Cardinality(CatchAllsFor(Table(Unwrap(snap[r])), ReqPath(r))) >= 2

C4_AuthBeforeProxy ==
    \A r \in Requests :
        IsProxyMatch(r) =>
            /\ IsSome(outbound[r]) => auth[r] = "ok"
            /\ auth[r] = NotAuthenticated =>
                   /\ pc[r] = "done"
                   /\ resp[r] = Some([status |-> 401, body |-> "unauthorized",
                                      location |-> None])
                   /\ ~IsSome(outbound[r])
            /\ pc[r] \in {"sent"} => IsSome(outbound[r])

\* the auth directive of a proxy route failed after an exchange
C4_Witness ==
    \E r \in Requests :
        /\ IsProxyMatch(r) /\ auth[r] = NotAuthenticated
        /\ Len(exchange_log[r]) = 1 /\ pc[r] = "done"

\* whether a Cookie header of the request names the session cookie
CarriesSessionCookie(headers) ==
    \E i \in 1..Len(headers.cookie) : Contains(headers.cookie[i], "session-cookie")

\* the auth step of a proxy match has returned or is awaiting the exchange
AuthStarted(r) == IsProxyMatch(r) /\ Dispatched(r)

\* C5: under Mandatory, without an identity client or without a session
\* cookie the result is NotAuthenticated and no exchange call is made; what
\* is sent to the backend carries an Authorization header that a successful
\* exchange produced.
C5_Mandatory ==
    \A r \in Requests :
        (AuthStarted(r) /\ Matched(r).auth_directive = Mandatory) =>
            /\ (~IsSome(authly_client) \/ ~CarriesSessionCookie(Matched(r).req.headers)) =>
                   /\ auth[r] = NotAuthenticated
                   /\ exchange_log[r] = << >>
                   /\ ~IsSome(outbound[r])
            /\ IsSome(outbound[r]) =>
                   /\ Len(exchange_log[r]) = 1
                   /\ LET a == Unwrap(outbound[r]).request.headers.authorization
                      IN  /\ IsSome(a)
                          /\ Unwrap(a)[Len(Unwrap(a))] \in Tokens

\* a Mandatory request with a session cookie but no identity client
C5_Witness ==
    \E r \in Requests :
        /\ AuthStarted(r) /\ Matched(r).auth_directive = Mandatory
        /\ ~IsSome(authly_client)
        /\ CarriesSessionCookie(Matched(r).req.headers)
        /\ pc[r] = "done"

\* C6: under Disabled no exchange call is made, with or without a session
\* cookie and an identity client; the result is ok and the request goes to
\* the backend with the headers match_route left.
C6_Disabled ==
    \A r \in Requests :
        (AuthStarted(r) /\ Matched(r).auth_directive = Disabled) =>
            /\ exchange_log[r] = << >>
            /\ auth[r] = "ok"
            /\ fwd[r] = Some(Matched(r).req)
            /\ IsSome(outbound[r])
            /\ Unwrap(outbound[r]).request = Matched(r).req

\* a Disabled request with a session cookie, with an identity client
C6_Witness ==
    \E r \in Requests :
        /\ AuthStarted(r) /\ Matched(r).auth_directive = Disabled
        /\ IsSome(authly_client)
        /\ CarriesSessionCookie(Matched(r).req.headers)
        /\ pc[r] = "sent"

\* C7: under Opportunistic without a session cookie the result is ok, no
\* exchange call is made and the request is forwarded with every header,
\* Authorization included, as it was.
C7_OpportunisticNoCookie ==
    \A r \in Requests :
        (/\ AuthStarted(r) /\ Matched(r).auth_directive = Opportunistic
         /\ ~CarriesSessionCookie(Matched(r).req.headers)) =>
            /\ exchange_log[r] = << >>
            /\ auth[r] = "ok"
            /\ IsSome(outbound[r])
            /\ Unwrap(outbound[r]).request = Matched(r).req
            /\ Matched(r).req.headers.authorization = Unwrap(req[r]).headers.authorization
            /\ Matched(r).req.headers.cookie = Unwrap(req[r]).headers.cookie

\* an Opportunistic request without a session cookie that came with an
\* Authorization header of its own, with an identity client
C7_Witness ==
    \E r \in Requests :
        /\ AuthStarted(r) /\ Matched(r).auth_directive = Opportunistic
        /\ ~CarriesSessionCookie(Matched(r).req.headers)
        /\ IsSome(authly_client)
        /\ IsSome(Unwrap(req[r]).headers.authorization)
        /\ pc[r] = "sent"

\* the exchange of a request has returned
Exchanged(r) == IsProxyMatch(r) /\ Len(exchange_log[r]) = 1 /\ pc[r] \in {"sent", "done"}

\* C8: when the exchange succeeds with token T the Authorization header is
\* exactly `Bearer T`, whatever the client sent; when it fails the result
\* is NotAuthenticated and the Authorization header is as it was.
C8_SessionExchange ==
    \A r \in Requests :
        Exchanged(r) =>
            /\ Matched(r).auth_directive \in {Mandatory, Opportunistic}
            /\ exchange_log[r] = << << "s1" >> >>
            /\ auth[r] = "ok" =>
                   \E t \in Tokens :
                       Unwrap(fwd[r]).headers.authorization = Some(<< "Bearer", " ", t >>)
            /\ auth[r] # "ok" =>
                   /\ auth[r] = NotAuthenticated
                   /\ Unwrap(fwd[r]).headers.authorization
                          = Matched(r).req.headers.authorization

\* the table the gateway holds now
CurrentTable == Table(gateway_routes)

\* the resources the watcher holds now
StoredRoutes == {Unwrap(k8s_routes[n]) : n \in {m \in RouteNames : IsSome(k8s_routes[m])}}

\* C9 as stated: every request path the static table matches is dispatched
\* to the same static route by the compiled table, whatever the
\* declarative routes are.
C9_StaticAlwaysWin ==
    \A P \in RequestPaths :
        RouterAt(static_routes, P).ok =>
            RouterAt(CurrentTable, P) = RouterAt(static_routes, P)

\* what the amended C9 says of one table
KeepsStaticPatterns(table) ==
    /\ \A e \in static_routes :
           /\ e \in table
           /\ \A f \in table : f.pat = e.pat => f = e
    /\ \A P \in RequestPaths :
           /\ P \in Patterns(static_routes) =>
                  RouterAt(table, P) = MatchOk(ValueOf(static_routes, P), None)
           /\ (RouterAt(static_routes, P).ok
                  /\ RouterAt(table, P) # RouterAt(static_routes, P)) =>
                  \E e \in table \ static_routes : RouterAt({e}, P).ok
TablesKeepingStatic == {arc \in 1..Len(AllTables) : KeepsStaticPatterns(Table(arc))}

\* C9 as amended: an insert for a pattern that is already present never
\* replaces the entry, so every static pattern keeps its static entry in
\* every compiled table and every request path that is itself a static
\* pattern is dispatched to its static route; a path that only a static
\* catch-all matches goes to the static route unless a declarative entry
\* matches it.
C9_StaticPatternsKept ==
    /\ gateway_routes \in TablesKeepingStatic
    /\ \A r \in Requests :
           (pc[r] = "matched" /\ ReqPath(r) = << SLASH, "health" >>) =>
               Matched(r).ok /\ Matched(r).tag = "LocalService"
                             /\ Matched(r).service = "Health"

\* a route that declares the static pattern /health is stored and compiled,
\* and a request for /health has been matched against that table
C9_Witness ==
    /\ \E id \in StoredRoutes : id.kind = "svc"
    /\ CurrentTable # static_routes
    /\ \E r \in Requests :
           /\ pc[r] = "matched" /\ snap[r] = Some(gateway_routes)
           /\ ReqPath(r) = << SLASH, "health" >>

\* the PathPrefix values and the Exact values the rules of a resource declare
MatchesOf(id) ==
    LET rules == Unwrap(Resource(id).spec.rules)
    IN  UNION {{Unwrap(Unwrap(rules[i].matches)[j].path) :
                    j \in 1..Len(Unwrap(rules[i].matches))} : i \in 1..Len(rules)}
Declared ==
    {[id |-> id,
      prefix |-> {Unwrap(m.value) :
                      m \in {x \in MatchesOf(id) : x.type \in {None, Some(PathPrefix)}}},
      exact |-> {Unwrap(m.value) : m \in {x \in MatchesOf(id) : x.type = Some(Exact)}}] :
         id \in HTTPRoutes}
PrefixValues(id) == (CHOOSE d \in Declared : d.id = id).prefix
ExactValues(id) == (CHOOSE d \in Declared : d.id = id).exact

\* V with all trailing '/' stripped, and V ending in '/'
Unterminated(V) ==
    LET k == CHOOSE i \in 0..Len(V) :
                 /\ i = 0 \/ V[i] # SLASH
                 /\ \A j \in (i + 1)..Len(V) : V[j] = SLASH
    IN  SubSeq(V, 1, k)
Terminated(V) == IF Len(V) > 0 /\ V[Len(V)] = SLASH THEN V ELSE V \o << SLASH >>

\* the table answers a request for `from` with a redirect to `to`
AnswersRedirect(from, to) ==
    LET m == RouterAt(CurrentTable, from)
    IN  m.ok /\ m.value = RouteTemporaryRedirect(RelUri(to))

\* C10 as stated: for every PathPrefix value V of the stored routes the
\* table answers a request for V without its trailing '/'s with a redirect
\* to V terminated by '/', whatever else is compiled and also for V = "/".
C10_RedirectAlways ==
    \A id \in StoredRoutes : \A V \in PrefixValues(id) :
        AnswersRedirect(Unterminated(V), Terminated(V))

\* no static route and no other match of the stored routes claims the
\* pattern S for anything but the redirect to T
Unclaimed(S, T) ==
    /\ S \notin Patterns(static_routes)
    /\ \A id \in StoredRoutes :
           /\ S \notin ExactValues(id)
           /\ \A W \in PrefixValues(id) : Unterminated(W) = S => Terminated(W) = T

\* the resources whose rules all compile
Compiling ==
    UNION {IF try_add_http_route(EmptyRouter, Resource(id)).ok THEN {id} ELSE {} :
               id \in HTTPRoutes}

\* C10 as amended: for every PathPrefix value V of the stored routes, the
\* table answers a request for V without its trailing '/'s with a 307 to V
\* terminated by '/', provided the stripped value is not empty and neither
\* a static route nor another match claims that pattern for something
\* else; a matched redirect is answered with status 307 and that location.
C10_RedirectUnlessClaimed ==
    /\ \A id \in StoredRoutes : \A V \in PrefixValues(id) :
           (/\ Unterminated(V) # << >>
            /\ id \in Compiling
            /\ Unclaimed(Unterminated(V), Terminated(V))) =>
               AnswersRedirect(Unterminated(V), Terminated(V))
    /\ \A r \in Requests :
           (pc[r] = "done" /\ Matched(r).ok /\ Matched(r).tag = "TemporaryRedirect") =>
               resp[r] = Some([status |-> 307, body |-> "",
                               location |-> Some(Matched(r).uri)])

\* both routes are stored, one declaring /a/ and the other /a, and a
\* request for /a has been answered with the 307 to /a/
C10_Witness ==
    /\ \E id \in StoredRoutes : id.kind = "svc"
    /\ \E id \in StoredRoutes : id.kind = "authly"
    /\ AnswersRedirect(<< SLASH, "a" >>, << SLASH, "a", SLASH >>)
    /\ \E r \in Requests :
           /\ pc[r] = "done" /\ ReqPath(r) = << SLASH, "a" >>
           /\ resp[r] = Some([status |-> 307, body |-> "",
                              location |-> Some(RelUri(<< SLASH, "a", SLASH >>))])

\* ---- forwarding headers (HeaderSpec)
\* the request the client sent, the request after the proxies passed
FirstHeaders == Unwrap(first_req).headers
HopHeaders == Unwrap(hop_req).req.headers
HopDone(n) == IsSome(hop_req) /\ Unwrap(hop_req).ok /\ Len(hops) = n

\* the host portion and the port portion of a Host value, read off the value
HostPortion(host) ==
    IF Contains(host, ":") THEN SubSeq(host, 1, IndexFrom(host, ":", 1) - 1) ELSE host
PortPortion(host) ==
    IF Contains(host, ":")
    THEN Some(SubSeq(host, IndexFrom(host, ":", 1) + 1, Len(host))) ELSE None

\* C11: a request with a Host header and no x-forwarded-host /
\* x-forwarded-port that passed set_proxy_headers carries x-forwarded-host
\* equal to the host portion of Host, with or without a port in Host,
\* x-forwarded-port equal to the port portion exactly when there is one, and
\* no Host header.
C11_ForwardedHostPort ==
    (/\ HopDone(1) /\ hops[1].by = "set_proxy_headers"
     /\ IsSome(FirstHeaders.host)
     /\ ~IsSome(FirstHeaders.x_forwarded_host)
     /\ ~IsSome(FirstHeaders.x_forwarded_port)) =>
        /\ HopHeaders.x_forwarded_host = Some(HostPortion(Unwrap(FirstHeaders.host)))
        /\ HopHeaders.x_forwarded_port = PortPortion(Unwrap(FirstHeaders.host))
        /\ HopHeaders.host = None

\* C12: after every proxy a pre-existing x-forwarded-proto, x-forwarded-host
\* or x-forwarded-port value is unchanged, and a pre-existing
\* x-forwarded-prefix value is the leading part of the new value.
C12_ExistingPreserved ==
    (IsSome(hop_req) /\ Unwrap(hop_req).ok /\ Len(hops) >= 1) =>
        /\ IsSome(FirstHeaders.x_forwarded_proto) =>
               HopHeaders.x_forwarded_proto = FirstHeaders.x_forwarded_proto
        /\ IsSome(FirstHeaders.x_forwarded_host) =>
               HopHeaders.x_forwarded_host = FirstHeaders.x_forwarded_host
        /\ IsSome(FirstHeaders.x_forwarded_port) =>
               HopHeaders.x_forwarded_port = FirstHeaders.x_forwarded_port
        /\ IsSome(FirstHeaders.x_forwarded_prefix) =>
               /\ IsSome(HopHeaders.x_forwarded_prefix)
               /\ IsPrefixOf(Unwrap(FirstHeaders.x_forwarded_prefix),
                             Unwrap(HopHeaders.x_forwarded_prefix))

\* the x-forwarded-prefix a single proxy leaves that rewrites the first
\* request's path to the current path
SingleProxyPrefix ==
    set_proxy_headers(
        [Unwrap(first_req) EXCEPT !.uri = Unwrap(hop_req).req.uri],
        Unwrap(first_req).uri).req.headers.x_forwarded_prefix

NoRoute(r) == ~RouterAt(Table(Unwrap(snap[r])), ReqPath(r)).ok

\* C14: a request whose path matches no entry of the table is answered
\* with 404 and the body "Not found"; no token exchange is called for it,
\* nothing is sent to a backend and no local handler is invoked.
C14_NoMatchNotFound ==
    \A r \in Requests :
        /\ (pc[r] = "matched" /\ NoRoute(r)) =>
               Matched(r) = HttpError(404, "Not found")
        /\ (IsSome(result[r]) /\ Matched(r) = HttpError(404, "Not found")) =>
               /\ pc[r] \in {"matched", "done"}
               /\ exchange_log[r] = << >>
               /\ ~IsSome(outbound[r])
               /\ pc[r] = "done" =>
                      resp[r] = Some([status |-> 404, body |-> "Not found",
                                      location |-> None])

\* an answered request that matched nothing while routes were declared
C14_Witness ==
    \E r \in Requests :
        /\ pc[r] = "done" /\ IsSome(result[r])
        /\ Matched(r) = HttpError(404, "Not found")
        /\ resp[r] = Some([status |-> 404, body |-> "Not found", location |-> None])
        /\ \E n \in RouteNames : IsSome(k8s_routes[n])

IsRedirectMatch(r) ==
    IsSome(result[r]) /\ Matched(r).ok /\ Matched(r).tag = "TemporaryRedirect"

\* C15: a request matched to a temporary redirect is answered with 307, a
\* Location header that holds the URI of the entry and an empty body; no
\* token exchange is called for it and nothing is sent to a backend.
C15_TemporaryRedirect ==
    \A r \in Requests :
        IsRedirectMatch(r) =>
            /\ pc[r] \in {"matched", "done"}
            /\ exchange_log[r] = << >>
            /\ ~IsSome(outbound[r])
            /\ pc[r] = "done" =>
                   resp[r] = Some([status |-> 307, body |-> "",
                                   location |-> Some(Matched(r).uri)])

\* an answered redirect
C15_Witness ==
    \E r \in Requests :
        /\ IsRedirectMatch(r) /\ pc[r] = "done"
        /\ IsSome(resp[r]) /\ Unwrap(resp[r]).status = 307

\* C16: every request that serve_request has finished has a response; when
\* the pipeline ended in an error of status S and message M the response
\* has status S and body M, otherwise it is the response the pipeline made.
C16_AlwaysResponse ==
    \A r \in Requests :
        pc[r] = "done" =>
            /\ IsSome(inner[r]) /\ IsSome(resp[r])
            /\ ~Unwrap(inner[r]).ok =>
                   /\ Unwrap(resp[r]).status = Unwrap(inner[r]).status
                   /\ Unwrap(resp[r]).body = Unwrap(inner[r]).msg
            /\ Unwrap(inner[r]).ok => Unwrap(resp[r]) = Unwrap(inner[r]).response

\* the backend call failed without a status: answered with 500 and the
\* message of the error
C16_Witness ==
    \E r \in Requests :
        /\ pc[r] = "done" /\ IsProxyMatch(r) /\ IsSome(inner[r])
        /\ inner[r] = Some(HttpError(500, "<error message>"))
        /\ resp[r] = Some([status |-> 500, body |-> "<error message>",
                           location |-> None])

\* ------------------------------------------------------- the upgrade path

WsRequest == Unwrap(ws_req)

\* reverse_proxy has answered 400 with msg and has issued nothing
Refused(msg) ==
    /\ ws_pc = "done"
    /\ ws_resp = Some([status |-> 400, body |-> msg, location |-> None])
    /\ ws_outbound = << >>
    /\ tunnel_pc = "none"

\* C17: the Upgrade header is judged before anything is issued to the
\* backend: without one the request goes the plain way, with the value
\* websocket the websocket way, with any other value it is answered 400; on
\* the websocket way a Sec-WebSocket-Version that is absent or not 13, or a
\* missing Sec-WebSocket-Key, is answered 400; nothing is issued to the
\* backend in any of the 400 cases.
C17_UpgradeValidation ==
    IsSome(ws_req) =>
        /\ ws_pc = "start" => ws_outbound = << >>
        /\ ws_pc # "start" =>
               IF ~IsSome(WsRequest.upgrade)
               THEN /\ ws_outbound = << [kind |-> "plain", headers |-> WsRequest] >>
                    /\ tunnel_pc = "none"
               ELSE IF WsRequest.upgrade # Some("websocket")
               THEN Refused("unrecognized 'Upgrade' header")
               ELSE IF WsRequest.version # Some("13")
               THEN Refused("invalid websocket version")
               ELSE IF ~IsSome(WsRequest.key)
               THEN Refused("'Sec-Websocket-Key' header missing")
               ELSE ws_outbound = << [kind |-> "websocket", headers |-> WsRequest] >>

\* a websocket handshake of version 13 without a key, refused
C17_Witness ==
    /\ IsSome(ws_req)
    /\ WsRequest.upgrade = Some("websocket") /\ WsRequest.version = Some("13")
    /\ ~IsSome(WsRequest.key)
    /\ Refused("'Sec-Websocket-Key' header missing")

\* C18: once the upstream handshake has succeeded the client is answered
\* 101 with Connection: upgrade, Upgrade: websocket, a Sec-WebSocket-Accept
\* that is base64(sha1(key followed by the GUID)) of the request's key, the
\* request's Sec-WebSocket-Key, and the request's Sec-WebSocket-Protocol
\* exactly when it has one.
C18_SwitchingProtocols ==
    tunnel_pc # "none" =>
        /\ IsSome(ws_resp)
        /\ LET r == Unwrap(ws_resp)
               key == Unwrap(WsRequest.key)
           IN  /\ r.status = 101
               /\ r.connection = Some("upgrade")
               /\ r.upgrade = Some("websocket")
               /\ r.sec_websocket_accept =
                      Some(Base64(Sha1(<< key, "258EAFA5-E914-47DA-95CA-C5AB0DC85B11" >>)))
               /\ r.sec_websocket_key = Some(key)
               /\ r.sec_websocket_protocol = WsRequest.protocol

\* an upgrade with a subprotocol, the tunnel running
C18_Witness ==
    /\ tunnel_pc = "running"
    /\ IsSome(WsRequest.protocol)
    /\ IsSome(ws_resp) /\ Unwrap(ws_resp).status = 101

\* the text and binary messages of what a socket yielded, in order
DataOf(received) == SelectSeq(received, LAMBDA m : m.kind \in {"Text", "Binary"})

\* C19: what the tunnel has sent to the backend is the sequence of the text
\* and binary messages it received from the client, and what it has sent
\* to the client is the sequence of those it received from the backend:
\* each once, with its type and payload, in the order received.
C19_TunnelForwards ==
    /\ back_sent = DataOf(front_recv)
    /\ front_sent = DataOf(back_recv)

\* a binary message has gone to the backend and two different text
\* messages to the client
C19_Witness ==
    /\ \E i \in 1..Len(back_sent) : back_sent[i].kind = "Binary"
    /\ Len(front_sent) = 2
    /\ front_sent[1].kind = "Text" /\ front_sent[2].kind = "Text"
    /\ front_sent[1].payload # front_sent[2].payload

Last(seq) == seq[Len(seq)]

\* the close frame the tunnel ended on, when seq ends with one
EndedOnClose(received) ==
    /\ received # << >>
    /\ Last(received).kind = "Close"
    /\ IsSome(Last(received).frame)

\* C20: a tunnel that ended on a close frame of code c and reason r from
\* one side has closed the other side with code c and reason r, whichever
\* side the frame came from.
C20_CloseTranslated ==
    tunnel_pc = "exited" =>
        /\ EndedOnClose(front_recv) =>
               back_closes = << CloseArgs(Some(Unwrap(Last(front_recv).frame).code),
                                          Some(Unwrap(Last(front_recv).frame).reason)) >>
        /\ EndedOnClose(back_recv) =>
               front_closes = << CloseArgs(Some(Unwrap(Last(back_recv).frame).code),
                                           Some(Unwrap(Last(back_recv).frame).reason)) >>

\* the outbound client has failed
ClientFailed == IsSome(ws_client) /\ ~Unwrap(ws_client).ok

\* C21: when the outbound client fails with an error that bears a status
\* (the plain request, or an upgrade the upstream refused) the response has
\* that status; a plain request that fails without a status is answered 500
\* with the message of the error as body; a websocket send, handshake or
\* protocol failure without an upstream status is answered 502.
C21_UpstreamStatus ==
    ClientFailed =>
        LET c == Unwrap(ws_client)
        IN  /\ ws_pc = "done" /\ IsSome(ws_resp)
            /\ IsSome(c.status) => Unwrap(ws_resp).status = Unwrap(c.status)
            /\ (c.op = "send" /\ ~IsSome(c.status)) =>
                   /\ Unwrap(ws_resp).status = 500
                   /\ Unwrap(ws_resp).body = c.err
            /\ (c.op # "send" /\ ~IsSome(c.status)) => Unwrap(ws_resp).status = 502

\* an upgrade the upstream refused, answered with the upstream's status
C21_Witness ==
    /\ ClientFailed
    /\ Unwrap(ws_client).op = "into_websocket"
    /\ Unwrap(ws_client).status = Some(RefusedStatus)
    /\ IsSome(ws_resp) /\ Unwrap(ws_resp).status = RefusedStatus

\* what ends the loop: the end of a stream or a close frame
EndsLoop(msg) == msg.kind \in {"End", "Close"}

\* the events of received before its last
Earlier(received) ==
    IF received = << >> THEN << >> ELSE SubSeq(received, 1, Len(received) - 1)

NoneEnds(received) == \A i \in 1..Len(received) : ~EndsLoop(received[i])

\* the tunnel has left its loop on the last event of received
LeftOn(received) == received # << >> /\ EndsLoop(Last(received))

\* C29: the tunnel leaves its loop, and calls close, only on the end of a
\* stream or on a close frame: while read errors, failed sends, pings and
\* pongs are all it has met besides data, it is still running, has closed
\* neither side and has forwarded every data message received so far.
C29_OnlyEndOrClose ==
    /\ tunnel_pc = "running" =>
           /\ NoneEnds(front_recv) /\ NoneEnds(back_recv)
           /\ front_closes = << >> /\ back_closes = << >>
    /\ tunnel_pc = "exited" =>
           /\ LeftOn(front_recv) # LeftOn(back_recv)
           /\ NoneEnds(Earlier(front_recv)) /\ NoneEnds(Earlier(back_recv))
           /\ LeftOn(front_recv) => NoneEnds(back_recv)
           /\ LeftOn(back_recv) => NoneEnds(front_recv)
    /\ (NoneEnds(front_recv) /\ NoneEnds(back_recv)
            /\ front_recv \o back_recv # << >>) =>
           /\ tunnel_pc = "running"
           /\ Len(back_sent) = Len(DataOf(front_recv))
           /\ Len(front_sent) = Len(DataOf(back_recv))

\* after a read error from the client and a failed send to the client, a
\* later text message of the client is forwarded and the tunnel runs on
C29_Witness ==
    /\ tunnel_pc = "running"
    /\ Len(front_recv) = 2 /\ front_recv[1].kind = "Err" /\ front_recv[2].kind = "Text"
    /\ Len(back_recv) = 1
    /\ << "front", 1 >> \in send_errs
    /\ Len(back_sent) = 1 /\ << "back", 1 >> \notin send_errs

\* the upstream handshake has succeeded
HandshakeDone ==
    /\ IsSome(ws_client)
    /\ Unwrap(ws_client).op = "into_websocket" /\ Unwrap(ws_client).ok

NothingForwarded ==
    /\ front_recv = << >> /\ back_recv = << >>
    /\ front_sent = << >> /\ back_sent = << >>
    /\ front_closes = << >> /\ back_closes = << >>

\* C30: the 101 is returned and the tunnel task exists only once the
\* upstream handshake has succeeded; when the upstream fails the client gets
\* an error status and there is no tunnel task; the task forwards nothing
\* before the client's upgrade has completed and nothing at all when that
\* upgrade fails.
C30_HandshakeOrder ==
    /\ tunnel_pc # "none" => HandshakeDone
    /\ (IsSome(ws_resp) /\ Unwrap(ws_resp).status = 101) =>
           HandshakeDone /\ tunnel_pc # "none"
    /\ ClientFailed =>
           /\ tunnel_pc = "none"
           /\ IsSome(ws_resp) /\ Unwrap(ws_resp).status >= 400
    /\ tunnel_pc \in {"none", "upgrading", "failed"} => NothingForwarded

\* the handshake succeeded and the 101 was returned, but the client's
\* upgrade failed
C30_Witness ==
    /\ tunnel_pc = "failed"
    /\ HandshakeDone
    /\ IsSome(ws_resp) /\ Unwrap(ws_resp).status = 101

\* ------------------------------------------------------------- compression

\* the content type a response states, when it states one that is text
StatedType == HeaderText(Unwrap(cmp_resp).content_type)

\* the size of the response when it is known: the exact size hint of the
\* body, else the number in Content-Length
KnownSize ==
    LET response == Unwrap(cmp_resp)
        length == HeaderText(response.content_length)
    IN  IF IsSome(response.size_hint) THEN response.size_hint
        ELSE IF IsSome(length) THEN ParseU64(Unwrap(length))
        ELSE None

Compiles(k8s) == {NewArc(k8s, o) : o \in IterationOrders(k8s)}

\* whether the version of resource n applied last passes the parent filter
LastUnbound(n) ==
    /\ IsSome(last_applied[n])
    /\ ~filter_k8s_http_route(Resource(Unwrap(last_applied[n])))

\* the route map without the resources whose last applied version is unbound
BoundNow == [n \in RouteNames |-> IF LastUnbound(n) THEN None ELSE k8s_routes[n]]

\* C24: the published table holds no entry of a resource whose most recently
\* applied version does not name arx among its parents: it is a table
\* compiled from the other resources of the route map alone.
C24_ParentBindingOverTime == gateway_routes \in Compiles(BoundNow)

\* C25: after every watcher event, and at startup, the published table is
\* the table compiled from the static routes and the route map as it stands.
C25_PublishedIsCompiled == gateway_routes \in Compiles(k8s_routes)

\* both resources are in the map after an apply and a batch was applied
C25_Witness ==
    /\ \A n \in RouteNames : IsSome(k8s_routes[n])
    /\ gateway_routes # ArcOf(rebuild_routing_table(<< >>, << >>))
    /\ Len(initial) = MaxInitial

\* a request task that is parked at an await of serve_request_inner
Suspended(r) == pc[r] \in {"exchange", "sent", "local"}

\* C26: a request task that is suspended (in the identity exchange, the
\* outbound send or a local handler) holds no guard of the route table and
\* no table it loaded; a guard is held only inside match_route.
C26_NoGuardAcrossAwait ==
    \A r \in Requests :
        /\ Suspended(r) => ~guard[r] /\ snap[r] = None
        /\ guard[r] => pc[r] = "loaded"

\* a request is suspended in the identity exchange while the watcher has
\* published a table of declarative routes
C26_Witness ==
    \E r \in Requests :
        /\ pc[r] = "exchange"
        /\ \E n \in RouteNames : IsSome(k8s_routes[n])
        /\ gateway_routes # ArcOf(rebuild_routing_table(<< >>, << >>))

\* the instance a holder currently publishes
Current(h) == holder_built[h][holder_instance[h]]

\* an instance whose two clients come from one builder
Complete(instance) == instance.reqwest_client = instance.middleware_client

\* what a request in flight sees of the instance it took at its match
HeldIntact ==
    IsSome(reader_held) =>
        /\ Deref(Unwrap(reader_held).arc) = Unwrap(reader_held).seen
        /\ Complete(Unwrap(reader_held).seen)
        /\ \A i \in 1..Len(reader_sent) : reader_sent[i] = Unwrap(reader_held).seen

\* a match takes the instance its holder publishes at that moment
TakesCurrent ==
    (reader_pc = "idle" /\ reader_pc' = "matched") =>
        /\ Unwrap(reader_held').arc.arc = holder_instance'[Unwrap(reader_held').arc.holder]
        /\ Unwrap(reader_held').seen = holder_built'[Unwrap(reader_held').arc.holder]
                                           [holder_instance'[Unwrap(reader_held').arc.holder]]

TookBuilder(h) == holder_stream'[h].items # holder_stream[h].items

\* what the step that takes a builder does to the current instance
BuildStep(h) ==
    TookBuilder(h) =>
        /\ holder_pc'[h] = "running"
        /\ IF Head(holder_stream[h].items).builds
           THEN holder_built'[h][holder_instance'[h]] =
                    [reqwest_client |-> Head(holder_stream[h].items).id,
                     middleware_client |-> Head(holder_stream[h].items).id]
           ELSE /\ holder_instance'[h] = holder_instance[h]
                /\ holder_built'[h] = holder_built[h]

\* the current instance is the allocation made last
CurrentIsLatest ==
    \A h \in Holders :
        /\ holder_instance[h] = Len(holder_built[h])
        /\ \A i, j \in 1..Len(holder_built[h]) :
               i < j => holder_built[h][i].reqwest_client < holder_built[h][j].reqwest_client

\* C27: a builder that fails to build leaves the current instance as it was
\* and the task running; a builder that builds becomes the current instance;
\* the current instance is always the one built last.
C27_BuildFailureKeepsInstance ==
    []CurrentIsLatest /\ [][\A h \in Holders : BuildStep(h)]_vars

\* a holder whose first builder failed and whose second one built
C27_Witness ==
    \E h \in Holders :
        /\ holder_pc[h] = "running"
        /\ Len(holder_built[h]) = 2
        /\ Current(h).reqwest_client = 2

AllExited ==
    /\ watcher_pc = "exited"
    /\ \A h \in Holders : holder_pc[h] = "exited"

\* an exited task changes neither the table nor the instance
ExitedPublishNothing ==
    /\ watcher_pc = "exited" => UNCHANGED << k8s_routes, gateway_routes >>
    /\ \A h \in Holders :
           holder_pc[h] = "exited" =>
               /\ holder_instance'[h] = holder_instance[h]
               /\ holder_built'[h] = holder_built[h]

\* C28: once the token has fired the watcher task and every holder task
\* exit, also when their streams stay pending; a holder task exits when its
\* builder stream has ended; an exited task publishes nothing.
C28_ShutdownExits ==
    /\ cancelled ~> AllExited
    /\ \A h \in Holders :
           (holder_stream[h].items = << >> /\ holder_stream[h].ends)
               ~> (holder_pc[h] = "exited")
    /\ [][ExitedPublishNothing]_vars

\* the token fired and all tasks exited, one holder with a pending stream,
\* after the watcher had published a declarative route
C28_Witness ==
    /\ cancelled
    /\ AllExited
    /\ \E h \in Holders : holder_stream[h].items = << >> /\ ~holder_stream[h].ends
    /\ \E n \in RouteNames : IsSome(k8s_routes[n])

\* the tunnel loop has been handed the end of a stream or a close frame
LoopEnded ==
    \/ front_recv # << >> /\ EndsLoop(Last(front_recv))
    \/ back_recv # << >> /\ EndsLoop(Last(back_recv))

\* once the loop has ended nothing is received or forwarded any more, and
\* each socket is closed at most once, the front one first
AfterEndStep ==
    LoopEnded =>
        /\ UNCHANGED << front_recv, back_recv, front_sent, back_sent >>
        /\ Len(front_closes') <= 1 /\ Len(back_closes') <= 1
        /\ Len(back_closes') <= Len(front_closes')

\* the task has ended with one close call on each socket
ClosedOnceEach ==
    tunnel_pc = "exited" => Len(front_closes) = 1 /\ Len(back_closes) = 1

\* C31: once the end of a stream or a close frame has reached the tunnel
\* loop, no further message is received or forwarded, close is called once
\* on the front socket and once on the back socket, and the task ends with
\* no further event from either peer and without the cancellation token.
C31_TunnelTermination ==
    /\ [][AfterEndStep]_vars
    /\ []ClosedOnceEach
    /\ LoopEnded ~> (tunnel_pc = "exited" /\ ~cancelled)

\* the task has ended on a close frame of the client after forwarding data
C31_Witness ==
    /\ tunnel_pc = "exited"
    /\ Len(front_recv) >= 2 /\ Last(front_recv).kind = "Close"
    /\ back_sent # << >>
    /\ Len(front_closes) = 1 /\ Len(back_closes) = 1
    /\ ~cancelled

\* ----------------------------------------------------------- claims C32..C40

\* the rules of the compiled resource, and the table it compiled to
CompiledRules == Unwrap(rc_input)
CompiledTable == Unwrap(rc_table).output
CompiledOk == Unwrap(rc_table).ok

\* the entries the compilation added to the static routes
AddedEntries == CompiledTable \ static_routes

\* the rule is compiled: it has a first backend ref with a port and a name
\* that parses
RuleCompiles(rule) ==
    /\ IsSome(rule.backend_refs)
    /\ Len(Unwrap(rule.backend_refs)) > 0
    /\ IsSome(Unwrap(rule.backend_refs)[1].port)
    /\ Unwrap(rule.backend_refs)[1].name # BAD
    /\ IsSome(rule.matches)

\* the match is a PathPrefix match (the type may be absent) of value v
IsPrefixMatch(m, v) ==
    /\ IsSome(m.path)
    /\ Unwrap(m.path).value = Some(v)
    /\ Unwrap(m.path).type \in {None, Some(PathPrefix)}

IsExactMatch(m, v) ==
    /\ IsSome(m.path)
    /\ Unwrap(m.path).value = Some(v)
    /\ Unwrap(m.path).type = Some(Exact)

\* C32: compiling the same content a second time leaves the table as it was
\* after the first time: every insert of the second occurrence is dropped
\* as a conflict and no existing entry changes.
C32_CompileIdempotent ==
    [][(rc_pc = "once" /\ rc_pc' = "twice")
           => /\ Unwrap(rc_table').output = Unwrap(rc_table).output
              /\ Unwrap(rc_table').ok = Unwrap(rc_table).ok]_vars

\* a PathPrefix value with trailing slashes was compiled twice, and its
\* three entries are in the table
C32_Witness ==
    /\ rc_pc = "twice"
    /\ CompiledOk
    /\ \E i \in 1..Len(CompiledRules) :
           /\ RuleCompiles(CompiledRules[i])
           /\ \E j \in 1..Len(Unwrap(CompiledRules[i].matches)) :
                  IsPrefixMatch(Unwrap(CompiledRules[i].matches)[j],
                                << SLASH, "b", SLASH, SLASH >>)
    /\ {<< SLASH, "b" >>, << SLASH, "b", SLASH, SLASH >>,
         << SLASH, "b", SLASH, SLASH, CATCHALL >>} \subseteq Patterns(AddedEntries)

\* the scan of the rule's filters
RuleScan(rule) ==
    IF IsSome(rule.filters)
    THEN ScanRuleFilters(Unwrap(rule.filters), 1,
                         [url_rewrite |-> None, auth_directive |-> Disabled])
    ELSE [url_rewrite |-> None, auth_directive |-> Disabled]

\* the replacement prefix the rule's URLRewrite filter asks for: R when R
\* ends with '/', R with a '/' appended otherwise, none without the filter
RequestedReplacePrefix(rule) ==
    LET rw == RuleScan(rule).url_rewrite
    IN  IF IsSome(rw) /\ IsSome(Unwrap(rw).path)
           /\ IsSome(Unwrap(Unwrap(rw).path).replace_prefix_match)
        THEN LET r == Unwrap(Unwrap(Unwrap(rw).path).replace_prefix_match)
             IN  IF EndsWithSlash(r) THEN Some(r) ELSE Some(Append(r, SLASH))
        ELSE None

\* the Proxy descriptors the compilation added
AddedProxies == {e.value.proxy : e \in {x \in AddedEntries : x.value.tag = "Proxy"}}

\* C33: every Proxy descriptor compiled from a rule, for a PathPrefix match,
\* a match without type or an Exact match, carries the replacement prefix
\* of the rule's URLRewrite filter, and none when the rule has no such filter.
C33_ReplacePrefixCompiled ==
    (rc_pc # "start" /\ Len(CompiledRules) = 1)
        => \A proxy \in AddedProxies :
               proxy.replace_prefix = RequestedReplacePrefix(CompiledRules[1])

\* the directive an authly.id extension name stands for
DirectiveOfName(name) ==
    IF name \in {"authn", "authn-mandatory"} THEN Mandatory
    ELSE IF name = "authn-opportunistic" THEN Opportunistic
    ELSE Disabled

RecognisedNames == {"authn", "authn-mandatory", "authn-opportunistic", "authn-disabled"}

\* the directive the rule's filters declare: that of the last recognised
\* authly.id extension, Disabled when there is none
DeclaredDirective(rule) ==
    LET fs == IF IsSome(rule.filters) THEN Unwrap(rule.filters) ELSE << >>
        rec == {i \in 1..Len(fs) :
                    /\ IsSome(fs[i].extension_ref)
                    /\ Unwrap(fs[i].extension_ref).group = AUTHLY_ID
                    /\ Unwrap(fs[i].extension_ref).name \in RecognisedNames}
    IN  IF rec = {} THEN Disabled
        ELSE DirectiveOfName(
                 Unwrap(fs[CHOOSE i \in rec : \A j \in rec : j <= i].extension_ref).name)

\* the path values of the rule's matches, without their trailing slashes
RuleStems(rule) ==
    IF ~IsSome(rule.matches) THEN {}
    ELSE {StripTrailingSlashes(Unwrap(Unwrap(m.path).value)) :
              m \in {x \in {Unwrap(rule.matches)[j] : j \in 1..Len(Unwrap(rule.matches))} :
                         IsSome(x.path) /\ IsSome(Unwrap(x.path).value)}}

\* the entry was compiled from rule i and from no other rule of the resource
FromRuleOnly(e, i) ==
    /\ StripTrailingSlashes(Literal(e.pat)) \in RuleStems(CompiledRules[i])
    /\ \A k \in 1..Len(CompiledRules) :
           k # i => StripTrailingSlashes(Literal(e.pat)) \notin RuleStems(CompiledRules[k])

AddedProxyEntries == {e \in AddedEntries : e.value.tag = "Proxy"}

MeshDeclared(ref) ==
    \/ ref.port = Some(443)
    \/ /\ IsSome(ref.filters)
       /\ \E k \in 1..Len(Unwrap(ref.filters)) :
              /\ IsSome(Unwrap(ref.filters)[k].extension_ref)
              /\ Unwrap(Unwrap(ref.filters)[k].extension_ref).group = AUTHLY_ID
              /\ Unwrap(Unwrap(ref.filters)[k].extension_ref).name = "mesh"

FirstBackendRef(rule) == Unwrap(rule.backend_refs)[1]

\* C35: every Proxy descriptor compiled from a rule has the mesh class and
\* scheme https if and only if the rule's first backend ref has port 443 or
\* the authly.id extension mesh, and the plain class and scheme http
\* otherwise; its authority is name:port of the first backend ref.
C35_BackendClassAndScheme ==
    rc_pc # "start"
        => \A i \in 1..Len(CompiledRules) : \A e \in AddedProxyEntries :
               FromRuleOnly(e, i)
                   => /\ IF MeshDeclared(FirstBackendRef(CompiledRules[i]))
                         THEN /\ e.value.proxy.backend_class = AuthlyMesh
                              /\ e.value.proxy.backend_uri.scheme = "https"
                         ELSE /\ e.value.proxy.backend_class = Plain
                              /\ e.value.proxy.backend_uri.scheme = "http"
                      /\ e.value.proxy.backend_uri.authority
                             = [host |-> FirstBackendRef(CompiledRules[i]).name,
                                port |-> Unwrap(FirstBackendRef(CompiledRules[i]).port)]

\* a rule of two backend refs, the first plain and the second on the mesh,
\* compiled to a plain descriptor for the first
C35_Witness ==
    /\ rc_pc = "once"
    /\ Len(CompiledRules) = 1
    /\ RuleCompiles(CompiledRules[1])
    /\ Len(Unwrap(CompiledRules[1].backend_refs)) = 2
    /\ ~MeshDeclared(FirstBackendRef(CompiledRules[1]))
    /\ MeshDeclared(Unwrap(CompiledRules[1].backend_refs)[2])
    /\ \E e \in AddedProxyEntries :
           /\ e.value.proxy.backend_class = Plain
           /\ e.value.proxy.backend_uri.authority.host = "svc"

\* the request matched on the compiled table came out as a proxy match
MatchedProxy ==
    /\ rc_pc = "matched"
    /\ Unwrap(rc_match).route.ok
    /\ Unwrap(rc_match).route.tag = "Proxy"

\* C36: a request matched to a Proxy route of the mesh class is sent with
\* the client of the mesh holder, one matched to a Proxy route of the plain
\* class with the client of the default holder.
C36_ClientByBackendClass ==
    MatchedProxy
        => Unwrap(rc_match).route.http_client
               = IF Unwrap(rc_match).at.value.proxy.backend_class = AuthlyMesh
                 THEN "authly" ELSE "default"

\* the request path matched an entry of the compiled table
MatchedEntry == rc_pc = "matched" /\ Unwrap(rc_match).at.ok

\* the captured path parameter, and the request path it was captured from
CapturedPath == Unwrap(Unwrap(rc_match).at.params)
RequestPath == Unwrap(rc_match).path

\* s is a non-empty suffix of path
NonEmptySuffix(s, path) ==
    /\ Len(s) > 0
    /\ Len(s) <= Len(path)
    /\ s = SubSeq(path, Len(path) - Len(s) + 1, Len(path))

\* C37 as stated: the captured path parameter is absent or a non-empty
\* suffix of the request path that begins with '/'.
C37_ParamBeginsWithSlash ==
    MatchedEntry
        => \/ Unwrap(rc_match).at.params = None
           \/ /\ NonEmptySuffix(CapturedPath, RequestPath)
              /\ CapturedPath[1] = SLASH

\* C37 amended: the captured path parameter is absent or a non-empty suffix
\* of the request path that follows a '/' of the path: it is what remains of
\* the path after the prefix of the catch-all pattern, which ends with '/'.
C37_ParamFollowsSlash ==
    MatchedEntry
        => \/ Unwrap(rc_match).at.params = None
           \/ /\ NonEmptySuffix(CapturedPath, RequestPath)
              /\ Len(CapturedPath) < Len(RequestPath)
              /\ RequestPath[Len(RequestPath) - Len(CapturedPath)] = SLASH

\* a request below a compiled PathPrefix matched its catch-all pattern and
\* captured the remainder
C37_Witness ==
    /\ MatchedEntry
    /\ Unwrap(rc_match).at.value.tag = "Proxy"
    /\ RequestPath = << SLASH, "a", SLASH, "b", SLASH >>
    /\ Unwrap(rc_match).at.params = Some(<< "b", SLASH >>)

\* the route map a listing stands for: the bound routes among its objects
ListedRoutes(objs) == ApplyAllToMap([n \in RouteNames |-> None], objs)

\* C38: when InitDone ends a re-list, the route map holds exactly the bound
\* routes of the listing, and the table published then is compiled from
\* them: a route that was in the map before and is not listed is gone.
C38_RelistReconciles ==
    [][WatchInitDone
           => /\ k8s_routes' = ListedRoutes(initial)
              /\ gateway_routes' \in Compiles(ListedRoutes(initial))]_vars

\* C39: when try_add_http_route returns an error for a resource, the
\* compiled table holds no entry of that resource: it is the table without
\* the resource, here the static routes.
C39_InvalidResourceIgnored ==
    (rc_pc # "start" /\ ~CompiledOk) => CompiledTable = static_routes

\* C40: the published table dispatches every request path as every table
\* compiled from the same route map does, whatever order the entries of the
\* map are iterated in.
C40_CompilationDeterministic ==
    \A t \in Compiles(k8s_routes) : \A path \in RequestPaths :
        RouterAt(Table(t), path) = RouterAt(Table(gateway_routes), path)

====
